---- MODULE Spec2Model ----
(***************************************************************************)
(* Research orchestration pipeline of the Deep-Researcher backend:         *)
(*   gemini/gen/research_base.py   research_agent_stream                   *)
(*   gemini/gateway.py             websocket_research (the /ws/research    *)
(*                                 consumer of the event stream)           *)
(*   gemini/sqlite_crud.py         research_sessions table                 *)
(* One action per pipeline stage; the state of a run is the record of the  *)
(* generator's local variables plus its position (pc).                     *)
(***************************************************************************)
EXTENDS Integers, Sequences, FiniteSets, TLC

VARIABLES runs, db, store

vars == <<runs, db, store>>

----------------------------------------------------------------------------
(* Bounds of the model *)

MaxWeb == 2

MaxHits == 2

MaxFrags == 2

(* Program constants *)

(* Mutant: a batch of six. *)
ScrapeCapSix == 5 + 1

ScrapeCap == 5

TopK == 3

SnippetCap == 500

WebBodyCap == 300

Runs == {1}

(* Lengths of the texts the collaborators return: longer than the caps.    *)
PageLen == SnippetCap + 100

HitLen == SnippetCap + 200

BodyLen == WebBodyCap + 50

(* Bounding of the inputs: a run explores the outcomes of one family of    *)
(* stages in full (its focus); the stages outside the focus have one       *)
(* successful outcome, and still every failure that ends the run.          *)
Focuses == {"intake", "retrieval", "media", "synthesis"}

----------------------------------------------------------------------------
(* Generic helpers *)

Min(a, b) == IF a < b THEN a ELSE b

Take(s, n) == SubSeq(s, 1, Min(Len(s), n))

RECURSIVE Concat(_)
Concat(ss) == IF ss = <<>> THEN <<>> ELSE Head(ss) \o Concat(Tail(ss))


SeqsUpTo(S, n) == UNION {[1..k -> S] : k \in 0..n}

None == [set |-> FALSE, val |-> <<>>]

Some(v) == [set |-> TRUE, val |-> v]

(* A text is known by its origin and its length; a slice keeps the origin  *)
(* and shortens the length (Python s[:n]).                                 *)
Text(kind, id, len) == [kind |-> kind, id |-> id, len |-> len]

Slice(t, n) == [t EXCEPT !.len = Min(@, n)]

(* A URL is known by its provider and its rank there; NoUrl is a missing   *)
(* or empty URL.                                                           *)
NoUrl == <<>>

Url(kind, i) == <<kind, i>>

----------------------------------------------------------------------------
(* research_sessions table (sqlite_crud.py).  A row is created with        *)
(* status "running" and NULL duration / answer / resources_used / metadata. *)
(* The table is a sequence of rows; the slug of a row is its position (a   *)
(* fresh uuid4 is a key no other row has).                                 *)

NewRowPending == [status |-> "pending", duration |-> None, answer |-> None,
                  resources_used |-> None, metadata |-> None]

(* Mutant: the row is inserted with a duration. *)
NewRowTimed == [status |-> "running", duration |-> Some("t"), answer |-> None,
                resources_used |-> None, metadata |-> None]

NewRow == [status |-> "running", duration |-> None, answer |-> None,
           resources_used |-> None, metadata |-> None]

(* Mutant: the row is inserted with a status other than "running". *)
create_research_session_pending(table) == Append(table, NewRowPending)

create_research_session(table) == Append(table, NewRow)

(* Mutant: the metadata column is left out of the UPDATE. *)
update_research_status_no_metadata(table, slug, status, duration, answer, resources_used, metadata) ==
    IF slug \in DOMAIN table
    THEN [table EXCEPT ![slug] =
            [status         |-> status,
             duration       |-> IF duration.set THEN duration ELSE @.duration,
             answer         |-> IF answer.set THEN answer ELSE @.answer,
             resources_used |-> IF resources_used.set THEN resources_used ELSE @.resources_used,
             metadata       |-> @.metadata]]
    ELSE table

(* Mutant: the UPDATE has no WHERE clause. *)
update_research_status_every_row(table, slug, status, duration, answer, resources_used, metadata) ==
    [k \in DOMAIN table |->
        [status         |-> status,
         duration       |-> IF duration.set THEN duration ELSE table[k].duration,
         answer         |-> IF answer.set THEN answer ELSE table[k].answer,
         resources_used |-> IF resources_used.set THEN resources_used
                            ELSE table[k].resources_used,
         metadata       |-> IF metadata.set THEN metadata ELSE table[k].metadata]]

(* UPDATE research_sessions SET status = ?, [duration = ?], [answer = ?],  *)
(* [resources_used = ?], [metadata = ?] WHERE slug = ?  -- a column is     *)
(* written only when its argument is not None; no condition on the         *)
(* current status.                                                         *)
update_research_status(table, slug, status, duration, answer, resources_used, metadata) ==
    IF slug \in DOMAIN table
    THEN [table EXCEPT ![slug] =
            [status         |-> status,
             duration       |-> IF duration.set THEN duration ELSE @.duration,
             answer         |-> IF answer.set THEN answer ELSE @.answer,
             resources_used |-> IF resources_used.set THEN resources_used ELSE @.resources_used,
             metadata       |-> IF metadata.set THEN metadata ELSE @.metadata]]
    ELSE table

----------------------------------------------------------------------------
(* Events: what research_agent_stream yields or hands to the progress      *)
(* callback, and what the websocket handler sends to the client.           *)

NoData == [none |-> TRUE]

ProgressEvent(stage) ==
    [type |-> "progress", tag |-> stage, text |-> <<>>, detail |-> "", slug |-> 0, data |-> NoData]

ChunkEvent(chunk) ==
    [type |-> "answer_chunk", tag |-> "", text |-> chunk, detail |-> "", slug |-> 0, data |-> NoData]

(* tag names the message: "refusal" (... sexual content that can't be      *)
(* processed), "rephrasing" (... Please try rephrasing your query),        *)
(* "unclear" (I'm not sure what you mean ...).                             *)
ErrorEvent(msg, slug) ==
    [type |-> "error", tag |-> msg, text |-> <<>>, detail |-> "", slug |-> slug, data |-> NoData]

(* gateway.py: {"type": "error", "message": f"Research failed: {str(e)}"}  *)
GatewayError(excmsg) ==
    [type |-> "error", tag |-> "Research failed: ", text |-> <<>>, detail |-> excmsg, slug |-> 0, data |-> NoData]

ResultEvent(answer, slug, data) ==
    [type |-> "result", tag |-> "", text |-> answer, detail |-> "", slug |-> slug, data |-> data]

(* Mutant: the handler also leaves its loop after an answer chunk. *)
TerminalWithChunk == {"result", "error", "answer_chunk"}

(* gateway.py 495: `if update.get("type") in ["error", "result"]: break` *)
Terminal == {"result", "error"}

----------------------------------------------------------------------------
(* Local variables of one run of research_agent_stream, as initialised at  *)
(* the top of the function, with the consumer's side of the stream.        *)

NoRag == [success |-> FALSE, results |-> <<>>]

EmptyDict == [kind |-> "empty", items |-> <<>>]

(* deep_research_agent has not returned. *)
NoReturn == [success |-> FALSE, error |-> "", data |-> None]

(* The safety check has not answered yet. *)
NoReply == [raised |-> FALSE, text |-> <<"?">>]

LocalsInit(focus) ==
    [pc |-> "create",
     focus |-> focus,
     research_slug |-> 0,
     needs_images |-> FALSE, needs_news |-> FALSE, is_clear |-> TRUE,
     sub_questions |-> <<>>,
     web_results |-> <<>>, urls |-> <<>>,
     scraped_content |-> <<>>,
     scrape_calls |-> <<>>, results_dict |-> <<>>,
     rag_save_success |-> FALSE,
     sources |-> <<>>,
     rag_results |-> NoRag,
     md_rag_results |-> <<>>,
     md_images |-> <<>>,
     news_results |-> <<>>, md_news |-> EmptyDict,
     saved_videos |-> <<>>, md_youtube |-> EmptyDict,
     context_parts |-> <<>>,
     full_answer |-> <<>>,
     transcript_save |-> "none",
     references |-> <<>>,
     emitted |-> <<>>,
     sent |-> <<>>,
     provided |-> <<>>,
     safety_reply |-> NoReply, analysis_failed |-> FALSE, sub_questions_failed |-> FALSE,
     unsafe |-> FALSE, web_outcome |-> "", image_outcome |-> "",
     news_outcome |-> "", video_outcome |-> "", rag_outcome |-> "",
     writes |-> 0, write_failed |-> FALSE, send_failed |-> FALSE,
     exc |-> "", returned |-> NoReturn]

Init ==
    /\ runs \in [Runs -> {LocalsInit(f) : f \in Focuses}]
    /\ db = <<>>
    /\ store = <<>>

(* The run r moves from s to t. *)
Step(r, t) == runs' = [runs EXCEPT ![r] = t]

(* websocket_research: `except Exception as e` sends the "Research failed" *)
(* error; that send can fail as well when the client is gone.              *)
GatewayExcept(s, excmsg, errSendOk) ==
    [s EXCEPT !.exc = excmsg,
              !.send_failed = @ \/ ~errSendOk,
              !.sent = IF errSendOk THEN Append(@, GatewayError(excmsg)) ELSE @]

(* An exception leaves the generator: nothing in research_agent_stream     *)
(* catches it, the websocket handler does.                                 *)
Raise(s, excmsg, errSendOk) ==
    [GatewayExcept(s, excmsg, errSendOk) EXCEPT !.pc = "raised"]

(* Mutant: the handler puts the event in front of what it has sent. *)
YieldPrepending(s, ev, nextpc, sendOk, errSendOk) ==
    LET s1 == [s EXCEPT !.emitted = Append(@, ev)] IN
    IF sendOk
    THEN [s1 EXCEPT !.sent = <<ev>> \o @,
                    !.pc = IF ev.type \in Terminal THEN "done" ELSE nextpc]
    ELSE [GatewayExcept([s1 EXCEPT !.send_failed = TRUE], "send failed", errSendOk)
             EXCEPT !.pc = "abandoned"]

(* `yield ev`: the handler's loop body sends ev to the client and breaks   *)
(* after an error or result event; when the send fails the handler leaves  *)
(* the loop and the generator is never resumed.                            *)
Yield(s, ev, nextpc, sendOk, errSendOk) ==
    LET s1 == [s EXCEPT !.emitted = Append(@, ev)] IN
    IF sendOk
    THEN [s1 EXCEPT !.sent = Append(@, ev),
                    !.pc = IF ev.type \in Terminal THEN "done" ELSE nextpc]
    ELSE [GatewayExcept([s1 EXCEPT !.send_failed = TRUE], "send failed", errSendOk)
             EXCEPT !.pc = "abandoned"]

(* `await progress_callback(ev)`: send_progress sends ev to the client;    *)
(* when it raises, the exception propagates into the pipeline.             *)
Callback(s, stage, nextpc, cbOk, errSendOk) ==
    LET s1 == [s EXCEPT !.emitted = Append(@, ProgressEvent(stage))] IN
    IF cbOk
    THEN [s1 EXCEPT !.sent = Append(@, ProgressEvent(stage)), !.pc = nextpc]
    ELSE Raise([s1 EXCEPT !.send_failed = TRUE], "send failed", errSendOk)

(* `if research_slug: try: chat_db.update_research_status(...) except:     *)
(* print(...)`: the write is skipped without a slug and a failing write    *)
(* changes nothing.                                                        *)
RecordStatus(s, dbOk, status, answer, resources_used, metadata) ==
    IF s.research_slug # 0 /\ dbOk
    THEN update_research_status(db, s.research_slug, status, Some("t"),
                                answer, resources_used, metadata)
    ELSE db

(* Mutant: a failing status write surfaces as an error event. *)
AttemptSurfacing(s, dbOk) ==
    IF s.research_slug # 0
    THEN [s EXCEPT !.writes = @ + 1, !.write_failed = @ \/ ~dbOk,
                   !.emitted = IF dbOk THEN @
                               ELSE Append(@, ErrorEvent("recorder", s.research_slug))]
    ELSE s

(* Bookkeeping of the attempted status writes of a run. *)
Attempt(s, dbOk) ==
    IF s.research_slug # 0
    THEN [s EXCEPT !.writes = @ + 1, !.write_failed = @ \/ ~dbOk]
    ELSE s

(* Mutant: every failure is recorded under one generic reason. *)
FailedMetaGeneric(reason) == Some([error |-> "failed", rag_results_count |-> 0, web_search_results_count |-> 0])

(* metadata={"error": reason} *)
FailedMeta(reason) == Some([error |-> reason, rag_results_count |-> 0, web_search_results_count |-> 0])

----------------------------------------------------------------------------
(* Outcomes of the external collaborators, drawn from small sets *)

(* Texts of the classifier, character by character. *)
Whitespace == {" ", "\n"}

RECURSIVE lstrip(_)
lstrip(text) ==
    IF text # <<>> /\ Head(text) \in Whitespace THEN lstrip(Tail(text)) ELSE text

RECURSIVE rstrip(_)
rstrip(text) ==
    IF text # <<>> /\ text[Len(text)] \in Whitespace
    THEN rstrip(SubSeq(text, 1, Len(text) - 1)) ELSE text

strip(text) == rstrip(lstrip(text))

UpperChar(c) ==
    CASE c = "y" -> "Y" [] c = "e" -> "E" [] c = "s" -> "S"
      [] c = "n" -> "N" [] c = "o" -> "O" [] OTHER -> c

upper(text) == [i \in DOMAIN text |-> UpperChar(text[i])]

(* The replies of the classifier: the call raises, or returns a text (an   *)
(* absent text is read as ""): "YES", " yes\n", "NO", "no", "YES." or "".   *)
SafetyReplies ==
    {<<"Y", "E", "S">>, <<" ", "y", "e", "s", "\n">>, <<"N", "O">>, <<"n", "o">>,
     <<"Y", "E", "S", ".">>, <<>>}

(* The run of the intake focus sees every reply; the others see the plain  *)
(* YES and NO.                                                             *)
SafetyOutcomes(focus) ==
    IF focus = "intake"
    THEN {[raised |-> TRUE, text |-> <<>>]} \cup [raised : {FALSE}, text : SafetyReplies]
    ELSE [raised : {FALSE}, text : {<<"Y", "E", "S">>, <<"N", "O">>}]

(* Mutant: the check fails closed. *)
check_sexual_content_closed(out) ==
    IF out.raised THEN TRUE ELSE upper(strip(out.text)) # <<"N", "O">>

(* 104-122: result = (text or "").strip().upper(); return result == "YES"; *)
(* any exception returns False.                                            *)
check_sexual_content(out) ==
    IF out.raised THEN FALSE ELSE upper(strip(out.text)) = <<"Y", "E", "S">>

(* analyze_query_needs: a parsed reply, or the defaults after any error. *)
NeedsDefault == [needs_images |-> FALSE, needs_news |-> FALSE, is_clear |-> TRUE]

AnalysisOutcomes(focus) ==
    CASE focus = "intake" ->
           {[failed |-> TRUE, needs |-> NeedsDefault]}
           \cup {[failed |-> FALSE, needs |-> n] :
                    n \in [needs_images : BOOLEAN, needs_news : BOOLEAN, is_clear : BOOLEAN]}
      [] focus = "retrieval" ->
           {[failed |-> FALSE, needs |-> n] :
              n \in [needs_images : {FALSE}, needs_news : {FALSE}, is_clear : BOOLEAN]}
      [] focus = "media" ->
           {[failed |-> FALSE, needs |-> n] :
              n \in [needs_images : BOOLEAN, needs_news : BOOLEAN, is_clear : {TRUE}]}
      [] focus = "paired" ->
           {[failed |-> FALSE, needs |-> n] :
              n \in [needs_images : BOOLEAN, needs_news : {FALSE}, is_clear : {TRUE}]}
      [] OTHER -> {[failed |-> FALSE, needs |-> NeedsDefault]}

(* Mutant: a failed analysis reads the query as unclear. *)
analyze_query_needs_unclear(out) ==
    IF out.failed THEN [NeedsDefault EXCEPT !.is_clear = FALSE] ELSE out.needs

analyze_query_needs(out) == IF out.failed THEN NeedsDefault ELSE out.needs

(* generate_sub_questions: the parsed list cut to 5, or [] after any error *)
SubQuestionOutcomes(focus) ==
    IF focus = "intake"
    THEN {[failed |-> TRUE, questions |-> <<>>], [failed |-> FALSE, questions |-> <<>>],
          [failed |-> FALSE, questions |-> <<"q1">>]}
    ELSE {[failed |-> FALSE, questions |-> <<"q1">>]}

generate_sub_questions(out) == IF out.failed THEN <<>> ELSE Take(out.questions, 5)

(* A web result of rank i: "full" has href, title and body; "nohref" has   *)
(* no href; "bare" has an href but neither title nor body.  The URL of     *)
(* rank i is Url("web", i).                                                *)
WebKinds == {"full", "nohref", "bare"}

WebResult(i, k) ==
    [href  |-> IF k = "nohref" THEN NoUrl ELSE Url("web", i),
     title |-> k # "bare",
     body  |-> Text("body", i, IF k = "bare" THEN 0 ELSE BodyLen)]

WebList(ks) == [i \in 1..Len(ks) |-> WebResult(i, ks[i])]

WebChoices(focus) ==
    IF focus = "retrieval"
    THEN {WebList(ks) : ks \in SeqsUpTo(WebKinds, MaxWeb)}
    ELSE {WebList(<<>>), WebList(<<"full">>)}

(* Which of the URLs handed to the scraper succeed, and whether the        *)
(* scraper as a whole raises.                                              *)
(* Outcomes of the scraper for n URLs: ok holds the ranks whose crawl      *)
(* succeeds (result.success); fault = k > 0 says that handling the k-th    *)
(* result raises (save_markdown, insert_crawl_record), fault = 1 being     *)
(* also the case of a crawler that raises before any result is handled.    *)
ScrapeChoices(focus, n) ==
    IF focus = "retrieval"
    THEN [ok : SUBSET (1..n), fault : {0}] \cup [ok : {1..n}, fault : 1..n]
    ELSE [ok : {1..n}, fault : {0}]

(* The time of the run, as written to saved_at; earlier runs ran at 0. *)
Now == 1

(* save_scraped_content: success, success = false, or an exception. *)
SaveChoices(focus) == IF focus = "retrieval" THEN {"ok", "fail", "raise"} ELSE {"ok"}

(* urls = [result.get("href", "") for result in web_results if result.get("href")] *)
RECURSIVE Hrefs(_)
Hrefs(results) ==
    IF results = <<>> THEN <<>>
    ELSE (IF Head(results).href # NoUrl THEN <<Head(results).href>> ELSE <<>>)
         \o Hrefs(Tail(results))

(* scrape_urls: one entry per URL, the page text or an "Error: ..." string *)
scrape_urls(urls, ok) ==
    [i \in 1..Len(urls) |->
        [url |-> urls[i],
         content |-> IF i \in ok THEN Text("page", urls[i], PageLen)
                     ELSE Text("Error:", urls[i], PageLen)]]

(* _scrape_urls_async: results_dict is filled result by result in the     *)
(* order of the URLs; an exception while a result is handled leaves the    *)
(* function with the dictionary built so far, which the caller never sees. *)
scrape_urls_async(urls, out) ==
    [raised |-> out.fault # 0,
     results_dict |-> IF out.fault = 0 THEN scrape_urls(urls, out.ok)
                      ELSE Take(scrape_urls(urls, out.ok), out.fault - 1)]

StartsWithError(t) == t.kind = "Error:"

RECURSIVE DropErrors(_)
DropErrors(items) ==
    IF items = <<>> THEN <<>>
    ELSE (IF StartsWithError(Head(items).content) THEN <<>> ELSE <<Head(items)>>)
         \o DropErrors(Tail(items))

Keys(items) == [i \in 1..Len(items) |-> items[i].url]

(* query_documents: success = false on any store error, otherwise the      *)
(* hits; the content of a hit may be empty.                                *)
Hit(i, len) == [content |-> Text("doc", i, len)]

HitLists ==
    {[i \in 1..Len(ls) |-> Hit(i, ls[i])] : ls \in SeqsUpTo({0, HitLen}, MaxHits)}

(* rag_stores.py 282-319: the hits with success = true, or, when the       *)
(* collection raises, success = false and no "results" key.                *)
query_documents(available, hits) ==
    IF available THEN [success |-> TRUE, results |-> hits] ELSE NoRag

RagOutcomes(focus) ==
    IF focus = "retrieval"
    THEN {query_documents(FALSE, <<>>)} \cup {query_documents(TRUE, h) : h \in HitLists}
    ELSE {query_documents(TRUE, <<Hit(1, HitLen)>>)}

----------------------------------------------------------------------------
(* Retrieval store (rag_stores.py).  The collection is the sequence of its *)
(* records in insertion order.                                             *)

ChunkSize == 1000

(* Mutant: only the full chunks are cut, the remainder is dropped. *)
chunks_of_full_only(content) ==
    [i \in 1..(content.len \div ChunkSize) |->
        [kind |-> content.kind, id |-> content.id,
         off |-> (i - 1) * ChunkSize, len |-> ChunkSize]]

(* chunks = [content[i:i+chunk_size] for i in range(0, len(content), chunk_size)] *)
chunks_of(content) ==
    [i \in 1..((content.len + ChunkSize - 1) \div ChunkSize) |->
        [kind |-> content.kind, id |-> content.id,
         off |-> (i - 1) * ChunkSize,
         len |-> Min(ChunkSize, content.len - (i - 1) * ChunkSize)]]

(* "doc_" + sha256(content)[:16]: a function of the content and of nothing *)
(* else; the digest is taken to be free of collisions.                     *)
generate_document_id(content) == <<"doc_", content>>

(* Mutant: the id is the position in the batch. *)
generate_ids_by_position(documents) == [i \in DOMAIN documents |-> <<"doc_", i>>]

generate_ids_for_documents(documents) ==
    [i \in DOMAIN documents |-> generate_document_id(documents[i])]

StoreIds(st) == {st[i].id : i \in DOMAIN st}

(* research_collection.add: ids that occur twice in the batch are refused  *)
(* with an exception, records whose id the collection already holds are    *)
(* left as they are, the others are appended.                              *)
RECURSIVE AddNew(_, _)
AddNew(st, records) ==
    IF records = <<>> THEN st
    ELSE AddNew(IF Head(records).id \in StoreIds(st) THEN st ELSE Append(st, Head(records)),
                Tail(records))

collection_add(st, documents, metadatas, ids) ==
    IF \E i, j \in DOMAIN ids : i # j /\ ids[i] = ids[j]
    THEN [raised |-> TRUE, store |-> st]
    ELSE [raised |-> FALSE,
          store |-> AddNew(st, [i \in DOMAIN ids |->
                                   [id |-> ids[i], document |-> documents[i],
                                    metadata |-> metadatas[i]]])]

(* create_documents: any exception (the embedding provider, the            *)
(* collection) becomes success = false.                                    *)
create_documents(st, documents, metadatas, addOk) ==
    IF documents = <<>> \/ ~addOk
    THEN [success |-> FALSE, count |-> 0, store |-> st]
    ELSE LET added == collection_add(st, documents, metadatas,
                                     generate_ids_for_documents(documents))
         IN  IF added.raised
             THEN [success |-> FALSE, count |-> 0, store |-> st]
             ELSE [success |-> TRUE, count |-> Len(documents), store |-> added.store]

(* The records of one page: its chunks with their metadata. *)
PageRecords(item, now) ==
    LET chunks == chunks_of(item.content) IN
    [i \in DOMAIN chunks |->
        [document |-> chunks[i],
         metadata |-> [url |-> item.url, chunk_index |-> i - 1,
                       total_chunks |-> Len(chunks), source_type |-> "web_scrape",
                       saved_at |-> now]]]

(* save_scraped_content at time `now` *)
save_scraped_content(st, scraped_content, now, addOk) ==
    IF scraped_content = <<>>
    THEN [success |-> FALSE, count |-> 0, store |-> st]
    ELSE LET records == Concat([i \in DOMAIN scraped_content |->
                                   PageRecords(scraped_content[i], now)])
         IN  create_documents(st,
                              [i \in DOMAIN records |-> records[i].document],
                              [i \in DOMAIN records |-> records[i].metadata],
                              addOk)

----------------------------------------------------------------------------
(* Context Assembler (research_base.py 950-980) *)

RECURSIVE RagParts(_)
RagParts(results) ==
    IF results = <<>> THEN <<>>
    ELSE (IF Head(results).content.len > 0
          THEN <<[tier |-> "rag", url |-> NoUrl, text |-> Slice(Head(results).content, SnippetCap)]>>
          ELSE <<>>)
         \o RagParts(Tail(results))

RECURSIVE ScrapedParts(_)
ScrapedParts(items) ==
    IF items = <<>> THEN <<>>
    ELSE (IF Head(items).content.len > 0 /\ ~StartsWithError(Head(items).content)
          THEN <<[tier |-> "scraped", url |-> Head(items).url,
                  text |-> Slice(Head(items).content, SnippetCap)]>>
          ELSE <<>>)
         \o ScrapedParts(Tail(items))

RECURSIVE WebParts(_)
WebParts(results) ==
    IF results = <<>> THEN <<>>
    ELSE (IF Head(results).title \/ Head(results).body.len > 0
          THEN <<[tier |-> "web", url |-> NoUrl, text |-> Slice(Head(results).body, WebBodyCap)]>>
          ELSE <<>>)
         \o WebParts(Tail(results))

(* Mutant: a strict priority chain, scraped pages only without store hits. *)
AssembleContextStrict(rag_results, scraped_content, web_results) ==
    LET p1 == IF rag_results.success /\ rag_results.results # <<>>
              THEN RagParts(Take(rag_results.results, TopK)) ELSE <<>>
        p2 == IF p1 = <<>> /\ scraped_content # <<>>
              THEN ScrapedParts(Take(scraped_content, TopK)) ELSE <<>>
        p12 == p1 \o p2
    IN  IF p12 = <<>> /\ web_results # <<>>
        THEN WebParts(Take(web_results, TopK))
        ELSE p12

(* Mutant: the raw web snippets are added whatever was collected before. *)
AssembleContextWebAlways(rag_results, scraped_content, web_results) ==
    LET p1 == IF rag_results.success /\ rag_results.results # <<>>
              THEN RagParts(Take(rag_results.results, TopK)) ELSE <<>>
        p2 == IF scraped_content # <<>>
              THEN ScrapedParts(Take(scraped_content, TopK)) ELSE <<>>
        p12 == p1 \o p2
    IN  IF web_results # <<>>
        THEN p12 \o WebParts(Take(web_results, TopK))
        ELSE p12

(* 950-974: rag parts, then scraped parts ("always use these if            *)
(* available"), and the web snippets only `if not context_parts`.          *)
AssembleContext(rag_results, scraped_content, web_results) ==
    LET p1 == IF rag_results.success /\ rag_results.results # <<>>
              THEN RagParts(Take(rag_results.results, TopK)) ELSE <<>>
        p2 == IF scraped_content # <<>>
              THEN ScrapedParts(Take(scraped_content, TopK)) ELSE <<>>
        p12 == p1 \o p2
    IN  IF p12 = <<>> /\ web_results # <<>>
        THEN WebParts(Take(web_results, TopK))
        ELSE p12

(* context = "\n\n".join(context_parts) if context_parts else <placeholder> *)
Context(parts) == IF parts # <<>> THEN parts ELSE <<[tier |-> "placeholder", url |-> NoUrl, text |-> Text("none", 0, 0)]>>

----------------------------------------------------------------------------
(* research_agent_stream, stage by stage *)

(* 552-562: create the session row; a failure is logged and the run goes   *)
(* on without a slug.                                                      *)
CreateSession(r) ==
    LET s == runs[r] IN
    /\ s.pc = "create"
    /\ UNCHANGED store
    /\ \E dbOk \in BOOLEAN :
         IF dbOk
         THEN /\ db' = create_research_session(db)
              /\ Step(r, [s EXCEPT !.pc = "safety", !.research_slug = Len(db) + 1])
         ELSE /\ db' = db
              /\ Step(r, [s EXCEPT !.pc = "safety"])

(* Mutant: the `return` after the refusal is missing. *)
SafetyCheckFallThrough(r) ==
    LET s == runs[r] IN
    /\ s.pc = "safety"
    /\ UNCHANGED store
    /\ \E out \in SafetyOutcomes(s.focus), dbOk \in BOOLEAN, sendOk \in BOOLEAN, errSendOk \in BOOLEAN :
         IF check_sexual_content(out)
         THEN /\ db' = RecordStatus(s, dbOk, "failed", None, Some(<<>>),
                                    FailedMeta("sexual_content_detected"))
              /\ Step(r, [Yield([Attempt(s, dbOk) EXCEPT !.unsafe = TRUE, !.safety_reply = out],
                                ErrorEvent("refusal", s.research_slug),
                                "done", sendOk, errSendOk) EXCEPT !.pc = "analyze"])
         ELSE /\ db' = db
              /\ Step(r, [s EXCEPT !.pc = "analyze", !.safety_reply = out])

(* 563-587: safety check; an unsafe query records the failure, yields the  *)
(* refusal and returns.                                                    *)
SafetyCheck(r) ==
    LET s == runs[r] IN
    /\ s.pc = "safety"
    /\ UNCHANGED store
    /\ \E out \in SafetyOutcomes(s.focus), dbOk \in BOOLEAN, sendOk \in BOOLEAN, errSendOk \in BOOLEAN :
         IF check_sexual_content(out)
         THEN /\ db' = RecordStatus(s, dbOk, "failed", None, Some(<<>>),
                                    FailedMeta("sexual_content_detected"))
              /\ Step(r, Yield([Attempt(s, dbOk) EXCEPT !.unsafe = TRUE, !.safety_reply = out],
                               ErrorEvent("refusal", s.research_slug),
                               "done", sendOk, errSendOk))
         ELSE /\ db' = db
              /\ Step(r, [s EXCEPT !.pc = "analyze", !.safety_reply = out])

(* 589-598 *)
AnalyzeQuery(r) ==
    LET s == runs[r] IN
    /\ s.pc = "analyze"
    /\ \E out \in AnalysisOutcomes(s.focus) :
         LET needs == analyze_query_needs(out) IN
         Step(r, [s EXCEPT !.pc = "sub_questions",
                           !.analysis_failed = out.failed,
                           !.needs_images = needs.needs_images,
                           !.needs_news = needs.needs_news,
                           !.is_clear = needs.is_clear])
    /\ UNCHANGED <<db, store>>

(* 600-605 *)
GenerateSubQuestions(r) ==
    LET s == runs[r] IN
    /\ s.pc = "sub_questions"
    /\ \E out \in SubQuestionOutcomes(s.focus) :
         Step(r, [s EXCEPT !.pc = "web_search",
                           !.sub_questions_failed = out.failed,
                           !.sub_questions = generate_sub_questions(out)])
    /\ UNCHANGED <<db, store>>

(* 607-635: web_search is called outside any try; an empty result records *)
(* the failure, yields the "rephrasing" error and returns.                 *)
WebSearch(r) ==
    LET s == runs[r] IN
    /\ s.pc = "web_search"
    /\ UNCHANGED store
    /\ \E raised \in BOOLEAN, web_results \in WebChoices(s.focus),
          dbOk \in BOOLEAN, sendOk \in BOOLEAN, errSendOk \in BOOLEAN :
         IF raised
         THEN /\ db' = db
              /\ Step(r, Raise([s EXCEPT !.web_outcome = "raised"],
                               "web_search error", errSendOk))
         ELSE IF web_results = <<>>
         THEN /\ db' = RecordStatus(s, dbOk, "failed", None, Some(<<>>),
                                    FailedMeta("no_web_results"))
              /\ Step(r, Yield([Attempt(s, dbOk) EXCEPT !.web_outcome = "empty"],
                               ErrorEvent("rephrasing", s.research_slug),
                               "done", sendOk, errSendOk))
         ELSE /\ db' = db
              /\ Step(r, [s EXCEPT !.pc = "p_scraping",
                                   !.web_outcome = "results",
                                   !.web_results = web_results,
                                   !.urls = Hrefs(web_results)])

(* Mutant: the news and the video announcements are exchanged. *)
ProgressStageSwapped(s) ==
    CASE s.pc = "p_scraping"       -> <<"scraping", IF s.urls # <<>> THEN "scrape" ELSE "result">>
      [] s.pc = "p_saving"         -> <<"saving", "save_rag">>
      [] s.pc = "p_rag_query"      -> <<"rag_query", "query_rag">>
      [] s.pc = "p_image_search"   -> <<"image_search", "image_search">>
      [] s.pc = "p_news_search"    -> <<"youtube_search", "news_search">>
      [] s.pc = "p_youtube_search" -> <<"news_search", "youtube_search">>
      [] s.pc = "p_analyzing_data" -> <<"analyzing_data", "assemble">>
      [] s.pc = "p_generating"     -> <<"generating", "gen_start">>

(* `if progress_callback: await progress_callback({... "stage": ...})`:    *)
(* the stage announced at each position and the position that follows.     *)
ProgressStage(s) ==
    CASE s.pc = "p_scraping"       -> <<"scraping", IF s.urls # <<>> THEN "scrape" ELSE "result">>
      [] s.pc = "p_saving"         -> <<"saving", "save_rag">>
      [] s.pc = "p_rag_query"      -> <<"rag_query", "query_rag">>
      [] s.pc = "p_image_search"   -> <<"image_search", "image_search">>
      [] s.pc = "p_news_search"    -> <<"news_search", "news_search">>
      [] s.pc = "p_youtube_search" -> <<"youtube_search", "youtube_search">>
      [] s.pc = "p_analyzing_data" -> <<"analyzing_data", "assemble">>
      [] s.pc = "p_generating"     -> <<"generating", "gen_start">>

ProgressPcs == {"p_scraping", "p_saving", "p_rag_query", "p_image_search",
                "p_news_search", "p_youtube_search", "p_analyzing_data", "p_generating"}

ProgressCallback(r) ==
    LET s == runs[r] IN
    /\ s.pc \in ProgressPcs
    /\ \E cbOk \in BOOLEAN, errSendOk \in BOOLEAN :
         Step(r, Callback(s, ProgressStage(s)[1], ProgressStage(s)[2], cbOk, errSendOk))
    /\ UNCHANGED <<db, store>>

(* 647-672: scrape the first 5 URLs, drop the "Error:" entries; any        *)
(* exception leaves scraped_content empty.                                 *)
Scrape(r) ==
    LET s == runs[r]
        top == Take(s.urls, ScrapeCap)
    IN
    /\ s.pc = "scrape"
    /\ \E out \in ScrapeChoices(s.focus, Len(top)) :
         LET scraped == scrape_urls_async(top, out) IN
         Step(r, [s EXCEPT !.pc = "p_saving",
                           !.scrape_calls = Append(@, top),
                           !.results_dict = scraped.results_dict,
                           !.scraped_content =
                               IF scraped.raised THEN <<>>
                               ELSE DropErrors(scraped.results_dict)])
    /\ UNCHANGED <<db, store>>

(* 684-706: index the scraped pages; the scraped URLs become sources only  *)
(* when the save reports success.                                          *)
SaveToRag(r) ==
    LET s == runs[r] IN
    /\ s.pc = "save_rag"
    /\ \E out \in SaveChoices(s.focus) :
         LET save_result == save_scraped_content(store, s.scraped_content, Now, out = "ok") IN
         IF s.scraped_content # <<>> /\ out # "raise" /\ save_result.success
         THEN /\ store' = save_result.store
              /\ Step(r, [s EXCEPT !.pc = "p_rag_query", !.rag_save_success = TRUE,
                                   !.sources = @ \o Keys(s.scraped_content)])
         ELSE /\ store' = store
              /\ Step(r, [s EXCEPT !.pc = "p_rag_query"])
    /\ UNCHANGED db

(* 718-735 *)
QueryRag(r) ==
    LET s == runs[r] IN
    /\ s.pc = "query_rag"
    /\ \E out \in RagOutcomes(s.focus) :
         Step(r, [s EXCEPT !.pc = "gate",
                           !.rag_outcome = IF out.success THEN "ok" ELSE "unavailable",
                           !.rag_results = out,
                           !.md_rag_results =
                               IF out.success /\ out.results # <<>> THEN out.results ELSE @])
    /\ UNCHANGED <<db, store>>

relevant_info_found(s) ==
    Len(s.scraped_content) > 0 \/ (s.rag_results.success /\ Len(s.rag_results.results) > 0)

(* 737-769: the ambiguity gate *)
(* Mutant: the unclear failure is recorded with no resources. *)
GateNoResources(r) ==
    LET s == runs[r] IN
    /\ s.pc = "gate"
    /\ UNCHANGED store
    /\ \E dbOk \in BOOLEAN, sendOk \in BOOLEAN, errSendOk \in BOOLEAN :
         IF ~relevant_info_found(s) /\ ~s.is_clear
         THEN /\ db' = RecordStatus(s, dbOk, "failed", None, Some(<<>>),
                                    FailedMeta("unclear_query"))
              /\ Step(r, Yield(Attempt(s, dbOk), ErrorEvent("unclear", s.research_slug),
                               "done", sendOk, errSendOk))
         ELSE /\ db' = db
              /\ Step(r, [s EXCEPT !.pc = IF s.needs_images THEN "p_image_search"
                                          ELSE "p_news_search"])

(* 737-769: the ambiguity gate. *)
Gate(r) ==
    LET s == runs[r] IN
    /\ s.pc = "gate"
    /\ UNCHANGED store
    /\ \E dbOk \in BOOLEAN, sendOk \in BOOLEAN, errSendOk \in BOOLEAN :
         IF ~relevant_info_found(s) /\ ~s.is_clear
         THEN /\ db' = RecordStatus(s, dbOk, "failed", None, Some(Hrefs(s.web_results)),
                                    FailedMeta("unclear_query"))
              /\ Step(r, Yield(Attempt(s, dbOk), ErrorEvent("unclear", s.research_slug),
                               "done", sendOk, errSendOk))
         ELSE /\ db' = db
              /\ Step(r, [s EXCEPT !.pc = IF s.needs_images THEN "p_image_search"
                                          ELSE "p_news_search"])

(* Image results (rank order): "ok" has a URL and is stored, "nourl" has   *)
(* no URL, "savefail" is not stored.                                       *)
ImageChoices(focus) ==
    IF focus = "media" THEN {<<>>, <<"ok">>, <<"nourl">>, <<"savefail">>} ELSE {<<"ok">>}

TopImages == 3

RECURSIVE SavedImages(_, _)
SavedImages(results, i) ==
    IF i > Len(results) THEN <<>>
    ELSE (IF results[i] = "ok" THEN <<[url |-> Url("img", i)]>> ELSE <<>>)
         \o SavedImages(results, i + 1)

(* 771-800: image_search is called outside any try. *)
ImageSearch(r) ==
    LET s == runs[r] IN
    /\ s.pc = "image_search"
    /\ \E raised \in BOOLEAN, image_results \in ImageChoices(s.focus), errSendOk \in BOOLEAN :
         IF raised
         THEN Step(r, Raise([s EXCEPT !.image_outcome = "raised"],
                            "image_search error", errSendOk))
         ELSE Step(r, [s EXCEPT !.pc = "p_news_search",
                                !.image_outcome = "results",
                                !.md_images = SavedImages(Take(image_results, TopImages), 1)])
    /\ UNCHANGED <<db, store>>

(* News items (provider order): "url" carries a URL, "nourl" does not. *)
(* "same" carries a URL on the domain of the first item.  raised tells     *)
(* which call raises: "search" (news_search), "save" (save_news_to_bucket, *)
(* called only for a non-empty list) or none.                              *)
NewsChoices(focus) ==
    IF focus = "media"
    THEN [raised : {"", "search", "save"},
          raw_news : {<<>>, <<"url">>, <<"nourl">>, <<"url", "same">>},
          saveOk : BOOLEAN]
    ELSE [raised : {""}, raw_news : {<<"url">>}, saveOk : {TRUE}]

(* The URL of a news item: its domain (netloc) and its path. *)
NewsUrl(domain, path) == Url("news", <<domain, path>>)

netloc(url) == url[2][1]

NewsItem(i, k) ==
    [url |-> CASE k = "url" -> NewsUrl(i, i)
               [] k = "same" -> NewsUrl(1, i)
               [] OTHER -> NoUrl]

(* Mutant: an exception of the news provider leaves the run. *)
NewsSearchUnguarded(r) ==
    LET s == runs[r] IN
    /\ s.pc = "news_search"
    /\ \E out \in NewsChoices(s.focus), errSendOk \in BOOLEAN :
         LET news_results == [i \in 1..Len(out.raw_news) |-> NewsItem(i, out.raw_news[i])]
             saveOk == out.saveOk
         IN
         IF out.raised = "search"
         THEN Step(r, Raise([s EXCEPT !.news_outcome = "search_raised"],
                            "news_search error", errSendOk))
         ELSE IF out.raised = "save" /\ news_results # <<>>
         THEN Step(r, [s EXCEPT !.pc = "p_youtube_search",
                                !.news_outcome = "save_raised",
                                !.news_results = news_results,
                                !.md_news = [kind |-> "error", items |-> <<>>]])
         ELSE Step(r, [s EXCEPT !.pc = "p_youtube_search",
                                !.news_outcome = "ok",
                                !.news_results = news_results,
                                !.md_news =
                                    IF news_results = <<>> THEN @
                                    ELSE [kind |-> IF saveOk THEN "saved" ELSE "save_error",
                                          items |-> news_results]])
    /\ UNCHANGED <<db, store>>

(* 802-851 *)
NewsSearch(r) ==
    LET s == runs[r] IN
    /\ s.pc = "news_search"
    /\ \E out \in NewsChoices(s.focus) :
         LET news_results == [i \in 1..Len(out.raw_news) |-> NewsItem(i, out.raw_news[i])]
             saveOk == out.saveOk
         IN
         IF out.raised = "search"
         THEN Step(r, [s EXCEPT !.pc = "p_youtube_search",
                                !.news_outcome = "search_raised",
                                !.news_results = <<>>,
                                !.md_news = [kind |-> "error", items |-> <<>>]])
         ELSE IF out.raised = "save" /\ news_results # <<>>
         THEN Step(r, [s EXCEPT !.pc = "p_youtube_search",
                                !.news_outcome = "save_raised",
                                !.news_results = news_results,
                                !.md_news = [kind |-> "error", items |-> <<>>]])
         ELSE Step(r, [s EXCEPT !.pc = "p_youtube_search",
                                !.news_outcome = "ok",
                                !.news_results = news_results,
                                !.md_news =
                                    IF news_results = <<>> THEN @
                                    ELSE [kind |-> IF saveOk THEN "saved" ELSE "save_error",
                                          items |-> news_results]])
    /\ UNCHANGED <<db, store>>

(* Videos (provider order): "full" has an id and a transcript, "plain" an  *)
(* id and no transcript (none exists, or get_video_data or                 *)
(* get_video_transcript raised), "noid" no id (and so no URL).  raised     *)
(* tells which call raises: "search" (youtube_search), "save"              *)
(* (save_youtube_videos_to_bucket, called only for a non-empty list) or    *)
(* none.                                                                   *)
VideoChoices(focus) ==
    IF focus = "media"
    THEN [raised : {"", "search", "save"},
          raw_videos : {<<>>, <<"full">>, <<"plain">>, <<"noid">>},
          saveOk : BOOLEAN]
    ELSE [raised : {""}, raw_videos : {<<"full">>}, saveOk : {TRUE}]

TopVideos == 2

Video(i, k) ==
    [url |-> IF k = "noid" THEN NoUrl ELSE Url("yt", i), has_transcript |-> k = "full"]

(* 853-938 *)
YoutubeSearch(r) ==
    LET s == runs[r] IN
    /\ s.pc = "youtube_search"
    /\ \E out \in VideoChoices(s.focus) :
         LET top == Take(out.raw_videos, TopVideos)
             saved_videos == [i \in 1..Len(top) |-> Video(i, top[i])]
             saveOk == out.saveOk
         IN
         IF out.raised = "search"
         THEN Step(r, [s EXCEPT !.pc = "p_analyzing_data",
                                !.video_outcome = "search_raised",
                                !.saved_videos = <<>>])
         ELSE IF out.raised = "save" /\ saved_videos # <<>>
         THEN Step(r, [s EXCEPT !.pc = "p_analyzing_data",
                                !.video_outcome = "save_raised",
                                !.saved_videos = saved_videos])
         ELSE Step(r, [s EXCEPT !.pc = "p_analyzing_data",
                                !.video_outcome = "ok",
                                !.saved_videos = saved_videos,
                                !.md_youtube =
                                    IF saved_videos # <<>> /\ saveOk
                                    THEN [kind |-> "saved", items |-> saved_videos]
                                    ELSE @])
    /\ UNCHANGED <<db, store>>

(* 950-1103: build the context and the prompt. *)
Assemble(r) ==
    LET s == runs[r] IN
    /\ s.pc = "assemble"
    /\ Step(r, [s EXCEPT !.pc = "p_generating",
                         !.context_parts =
                             AssembleContext(s.rag_results, s.scraped_content, s.web_results)])
    /\ UNCHANGED <<db, store>>

(* 1114-1122: generate_content_stream is called outside any try. *)
GenStart(r) ==
    LET s == runs[r] IN
    /\ s.pc = "gen_start"
    /\ \E raised \in BOOLEAN, errSendOk \in BOOLEAN :
         IF raised
         THEN Step(r, Raise([s EXCEPT !.full_answer = <<>>], "generation error", errSendOk))
         ELSE Step(r, [s EXCEPT !.pc = "streaming", !.full_answer = <<>>])
    /\ UNCHANGED <<db, store>>

(* The k-th fragment of the provider: no text, or a text of its own. *)
FragTexts(focus, k) == IF focus = "synthesis" THEN {<<>>, <<k>>, <<k, k>>} ELSE {<<k>>}

FragLimit(focus) == IF focus = "synthesis" THEN MaxFrags ELSE 1

(* Mutant: the fragment is put in front of the answer. *)
AppendAnswerFront(full_answer, text) == text \o full_answer

(* 1126: full_answer += chunk.text *)
AppendAnswer(full_answer, text) == full_answer \o text

(* 1124-1128: one iteration of `for chunk in response`. *)
GenChunk(r) ==
    LET s == runs[r]
        k == Len(s.provided) + 1
    IN
    /\ s.pc = "streaming"
    /\ k <= FragLimit(s.focus)
    /\ \E text \in FragTexts(s.focus, k), sendOk \in BOOLEAN, errSendOk \in BOOLEAN :
         LET s1 == [s EXCEPT !.provided = Append(@, text)] IN
         IF text # <<>>
         THEN Step(r, Yield([s1 EXCEPT !.full_answer = AppendAnswer(@, text)], ChunkEvent(text),
                            "streaming", sendOk, errSendOk))
         ELSE Step(r, s1)
    /\ UNCHANGED <<db, store>>

(* The provider fails while the response is iterated. *)
GenRaise(r) ==
    LET s == runs[r] IN
    /\ s.pc = "streaming"
    /\ Len(s.provided) <= FragLimit(s.focus)
    /\ \E errSendOk \in BOOLEAN : Step(r, Raise(s, "generation error", errSendOk))
    /\ UNCHANGED <<db, store>>

(* The response is exhausted. *)
GenEnd(r) ==
    LET s == runs[r] IN
    /\ s.pc = "streaming"
    /\ Step(r, [s EXCEPT !.pc = "save_transcript"])
    /\ UNCHANGED <<db, store>>

TranscriptChoices(focus) ==
    IF focus = "synthesis"
    THEN [cbOk : BOOLEAN, stored : {"ok", "fail", "raise"}]
    ELSE [cbOk : {TRUE}, stored : {"ok"}]

(* 1130-1169: the "saving" progress event and the transcript store are in  *)
(* one try; any exception only marks the transcript as not saved.          *)
SaveTranscript(r) ==
    LET s == runs[r] IN
    /\ s.pc = "save_transcript"
    /\ \E out \in TranscriptChoices(s.focus) :
         LET cbOk == out.cbOk
             stored == out.stored
             s1 == [s EXCEPT !.emitted = Append(@, ProgressEvent("saving")),
                             !.pc = "finalize"]
         IN
         IF cbOk
         THEN Step(r, [s1 EXCEPT !.sent = Append(@, ProgressEvent("saving")),
                                 !.transcript_save = IF stored = "ok" THEN "ok" ELSE "fail"])
         ELSE Step(r, [s1 EXCEPT !.transcript_save = "fail"])
    /\ UNCHANGED <<db, store>>

RECURSIVE ItemUrls(_)
ItemUrls(items) ==
    IF items = <<>> THEN <<>>
    ELSE (IF Head(items).url # NoUrl THEN <<Head(items).url>> ELSE <<>>)
         \o ItemUrls(Tail(items))

(* 1174-1205 *)
all_resources(s) ==
    s.sources
    \o ItemUrls(s.md_images)
    \o Hrefs(s.web_results)
    \o (IF s.md_youtube.kind # "empty" THEN ItemUrls(s.md_youtube.items) ELSE <<>>)
    \o (IF s.md_news.kind # "empty" THEN ItemUrls(s.md_news.items) ELSE <<>>)

(* 1242-1283 *)
References(s) ==
    [i \in 1..Len(s.sources) |-> [url |-> s.sources[i], type |-> "web"]]
    \o [i \in 1..Len(s.saved_videos) |-> [url |-> s.saved_videos[i].url, type |-> "youtube"]]
    \o [i \in 1..Len(ItemUrls(s.news_results)) |->
            [url |-> ItemUrls(s.news_results)[i], type |-> "news"]]

CompletedMeta(s) ==
    Some([error |-> "", rag_results_count |-> Len(s.md_rag_results),
          web_search_results_count |-> Len(s.web_results)])

(* 1171-1283: record the completed session and build the references. *)
Finalize(r) ==
    LET s == runs[r] IN
    /\ s.pc = "finalize"
    /\ UNCHANGED store
    /\ \E dbOk \in BOOLEAN :
         /\ db' = RecordStatus(s, dbOk, "completed", Some(s.full_answer),
                               Some(all_resources(s)), CompletedMeta(s))
         /\ Step(r, [Attempt(s, dbOk) EXCEPT !.pc = "result", !.references = References(s)])

(* Mutant: the sources count is taken from the structured references. *)
ResultDataCountingReferences(s) ==
    [sub_questions |-> s.sub_questions,
     sources |-> s.sources,
     references |-> s.references,
     images |-> s.md_images,
     youtube |-> s.md_youtube,
     news |-> s.md_news,
     rag_results |-> s.md_rag_results,
     sources_count |-> Len(s.references),
     images_count |-> Len(s.md_images),
     youtube_count |-> Len(s.saved_videos),
     news_count |-> IF s.needs_news THEN Len(s.news_results) ELSE 0,
     sub_questions_count |-> Len(s.sub_questions),
     transcript_file |-> s.transcript_save]

(* 1287-1329: the payload of the result event. *)
ResultData(s) ==
    [sub_questions |-> s.sub_questions,
     sources |-> s.sources,
     references |-> s.references,
     images |-> s.md_images,
     youtube |-> s.md_youtube,
     news |-> s.md_news,
     rag_results |-> s.md_rag_results,
     sources_count |-> Len(s.sources),
     images_count |-> Len(s.md_images),
     youtube_count |-> Len(s.saved_videos),
     news_count |-> IF s.needs_news THEN Len(s.news_results) ELSE 0,
     sub_questions_count |-> Len(s.sub_questions),
     transcript_file |-> s.transcript_save]

(* 1285-1330: the result event, yielded at function level: also reached    *)
(* straight from the scraping announcement when no result has an href.     *)
YieldResult(r) ==
    LET s == runs[r] IN
    /\ s.pc = "result"
    /\ \E sendOk \in BOOLEAN, errSendOk \in BOOLEAN :
         Step(r, Yield(s, ResultEvent(s.full_answer, s.research_slug, ResultData(s)),
                       "done", sendOk, errSendOk))
    /\ UNCHANGED <<db, store>>

(* One step of the run r: any stage of research_agent_stream. *)
Pipeline(r) ==
    \/ CreateSession(r)
    \/ SafetyCheck(r)
    \/ AnalyzeQuery(r)
    \/ GenerateSubQuestions(r)
    \/ WebSearch(r)
    \/ ProgressCallback(r)
    \/ Scrape(r)
    \/ SaveToRag(r)
    \/ QueryRag(r)
    \/ Gate(r)
    \/ ImageSearch(r)
    \/ NewsSearch(r)
    \/ YoutubeSearch(r)
    \/ Assemble(r)
    \/ GenStart(r)
    \/ GenChunk(r)
    \/ GenRaise(r)
    \/ GenEnd(r)
    \/ SaveTranscript(r)
    \/ Finalize(r)
    \/ YieldResult(r)

Next == \E r \in Runs : Pipeline(r)

Spec == Init /\ [][Next]_vars

----------------------------------------------------------------------------
(* Runs started in the middle of the pipeline *)

(* A progress announcement that is delivered. *)
Announce(s) == Callback(s, ProgressStage(s)[1], ProgressStage(s)[2], TRUE, TRUE)

(* Lines 552-635 for a safe and clear query without images, the session    *)
(* created, the web search returning web_results.                          *)
AfterWebSearch(web_results) ==
    [LocalsInit("retrieval") EXCEPT
        !.pc = "p_scraping", !.research_slug = 1,
        !.safety_reply = [raised |-> FALSE, text |-> <<"N", "O">>],
        !.sub_questions = <<"q1">>,
        !.web_outcome = "results",
        !.web_results = web_results,
        !.urls = Hrefs(web_results)]

----------------------------------------------------------------------------
(* The scraping stage on its own: a run that has announced the scraping of *)
(* the URLs of up to ScrapeWeb web results, with or without an href; the   *)
(* one step is the call of the scraper.                                    *)

ScrapeWeb == 10

ScrapeWebResults ==
    {w \in {WebList(ks) : ks \in SeqsUpTo({"full", "nohref"}, ScrapeWeb)} : Hrefs(w) # <<>>}

InitScrape ==
    /\ db = create_research_session(<<>>)
    /\ store = <<>>
    /\ \E w \in ScrapeWebResults :
         runs = [r \in Runs |-> Announce(AfterWebSearch(w))]

NextScrape == \E r \in Runs : Scrape(r)

SpecScrape == InitScrape /\ [][NextScrape]_vars

----------------------------------------------------------------------------
(* The indexing stage on its own: a run about to index up to IndexPages    *)
(* scraped pages, the collection empty or left by an earlier run that      *)
(* indexed pages of the same kind at time 0.                               *)

IndexPages == 3

(* Page texts of one chunk, of two chunks, and of exactly one full chunk. *)
PageTexts ==
    {Text("page", Url("text", 1), PageLen),
     Text("page", Url("text", 2), ChunkSize + 500),
     Text("page", Url("text", 3), ChunkSize)}

PageLists ==
    {[i \in DOMAIN ts |-> [url |-> Url("web", i), content |-> ts[i]]] :
        ts \in SeqsUpTo(PageTexts, IndexPages) \ {<<>>}}

EarlierStores == {<<>>} \cup {save_scraped_content(<<>>, p, 0, TRUE).store : p \in PageLists}

(* Lines 552-682 for a run whose web results were all scraped, as pages. *)
BeforeIndexing(pages) ==
    LET s1 == Announce(AfterWebSearch(WebList([i \in DOMAIN pages |-> "full"]))) IN
    Announce([s1 EXCEPT !.pc = "p_saving",
                        !.scrape_calls = <<Take(s1.urls, ScrapeCap)>>,
                        !.results_dict = pages,
                        !.scraped_content = pages])

InitRag ==
    /\ db = create_research_session(<<>>)
    /\ store \in EarlierStores
    /\ runs \in [Runs -> {BeforeIndexing(p) : p \in PageLists}]

NextRag == \E r \in Runs : SaveToRag(r)

SpecRag == InitRag /\ [][NextRag]_vars

----------------------------------------------------------------------------
(* The indexing and query stages against the collection itself: the one    *)
(* research_collection of the process (rag_stores.py 34-38) is read by     *)
(* every run, and holds what earlier runs have indexed.                    *)

(* query_documents(query, max_results=5) at research_base.py 720 *)
RagMaxResults == 5

(* research_collection.query(query_texts, n_results, include, where=None): *)
(* the n_results nearest records of the whole collection, nearest first;   *)
(* which records are nearest to the query is not known to the caller.      *)
research_collection_query(st, n_results) ==
    {[i \in DOMAIN order |->
         [id |-> st[order[i]].id, content |-> st[order[i]].document,
          metadata |-> st[order[i]].metadata]] :
       order \in {o \in [1..Min(n_results, Len(st)) -> DOMAIN st] :
                     \A i, j \in DOMAIN o : o[i] = o[j] => i = j}}

(* rag_stores.py 269-319 with where = None: the hits of the collection, or *)
(* success = false when the collection raises.                             *)
query_documents_collection(st, max_results) ==
    {query_documents(FALSE, <<>>)}
        \cup {query_documents(TRUE, hits) :
                 hits \in research_collection_query(st, max_results)}

(* 718-735, the hits read from the collection *)
QueryCollection(r) ==
    LET s == runs[r] IN
    /\ s.pc = "query_rag"
    /\ \E out \in query_documents_collection(store, RagMaxResults) :
         Step(r, [s EXCEPT !.pc = "gate",
                           !.rag_outcome = IF out.success THEN "ok" ELSE "unavailable",
                           !.rag_results = out,
                           !.md_rag_results =
                               IF out.success /\ out.results # <<>> THEN out.results ELSE @])
    /\ UNCHANGED <<db, store>>

(* Lines 552-682 for a run whose scrape_urls call raised (665-672). *)
BeforeIndexingNothing(pages) ==
    [BeforeIndexing(pages) EXCEPT !.results_dict = <<>>, !.scraped_content = <<>>]

InitShared ==
    /\ db = create_research_session(<<>>)
    /\ store \in EarlierStores
    /\ runs \in [Runs -> {BeforeIndexing(p) : p \in PageLists}
                            \cup {BeforeIndexingNothing(p) : p \in PageLists}]

NextShared ==
    \E r \in Runs :
        \/ SaveToRag(r)
        \/ ProgressCallback(r)
        \/ QueryCollection(r)

SpecShared == InitShared /\ [][NextShared]_vars

----------------------------------------------------------------------------
(* The Context Assembler on its own: a run that has passed the retrieval   *)
(* stages without a failure stands before line 950 with any combination of *)
(* web results, scraped pages and store hits; the one step is the assembly.*)

CtxWeb == 4
CtxHits == 4

(* Store hits whose content is empty or longer than the 500 cap. *)
CtxHitLists ==
    {[i \in 1..Len(ls) |-> Hit(i, ls[i])] : ls \in SeqsUpTo({0, HitLen}, CtxHits)}

CtxRagResults == {NoRag} \cup {[success |-> TRUE, results |-> h] : h \in CtxHitLists}

(* Web results of which at least one has an href (line 648: `if urls:`). *)
CtxWebResults ==
    {w \in {WebList(ks) : ks \in SeqsUpTo(WebKinds, CtxWeb)} : Hrefs(w) # <<>>}

(* Lines 552-948 for such a query, the pages of `ok` scraped and indexed,  *)
(* the store answering rag_results.                                        *)
BeforeAssembly(web_results, ok, rag_results) ==
    LET s1 == Announce(AfterWebSearch(web_results))
        s2 == Announce([s1 EXCEPT !.pc = "p_saving",
                                  !.scrape_calls = <<Take(s1.urls, ScrapeCap)>>,
                                  !.results_dict = scrape_urls(Take(s1.urls, ScrapeCap), ok),
                                  !.scraped_content =
                                      DropErrors(scrape_urls(Take(s1.urls, ScrapeCap), ok))])
        s3 == Announce(IF s2.scraped_content # <<>>
                       THEN [s2 EXCEPT !.pc = "p_rag_query", !.rag_save_success = TRUE,
                                       !.sources = @ \o Keys(s2.scraped_content)]
                       ELSE [s2 EXCEPT !.pc = "p_rag_query"])
        s4 == Announce([s3 EXCEPT !.pc = "p_news_search",
                                  !.rag_outcome = IF rag_results.success THEN "ok"
                                                  ELSE "unavailable",
                                  !.rag_results = rag_results,
                                  !.md_rag_results =
                                      IF rag_results.success /\ rag_results.results # <<>>
                                      THEN rag_results.results ELSE @])
        s5 == Announce([s4 EXCEPT !.pc = "p_youtube_search",
                                  !.news_outcome = "ok",
                                  !.news_results = <<NewsItem(1, "url")>>,
                                  !.md_news = [kind |-> "saved", items |-> <<NewsItem(1, "url")>>]])
        s6 == Announce([s5 EXCEPT !.pc = "p_analyzing_data",
                                  !.video_outcome = "ok",
                                  !.saved_videos = <<Video(1, "full")>>,
                                  !.md_youtube = [kind |-> "saved", items |-> <<Video(1, "full")>>]])
    IN  s6

InitCtx ==
    /\ db = create_research_session(<<>>)
    /\ \E w \in CtxWebResults, rag \in CtxRagResults :
         \E ok \in SUBSET (1..Min(Len(Hrefs(w)), ScrapeCap)) :
            /\ runs = [r \in Runs |-> BeforeAssembly(w, ok, rag)]
            /\ store = save_scraped_content(<<>>, BeforeAssembly(w, ok, rag).scraped_content,
                                            Now, TRUE).store

NextCtx == \E r \in Runs : Assemble(r)

SpecCtx == InitCtx /\ [][NextCtx]_vars

----------------------------------------------------------------------------
(* Two concurrent runs: two websocket connections served by one event      *)
(* loop, each running research_agent_stream, over the one sessions table   *)
(* and the one collection.  The steps of the two runs interleave at will;  *)
(* each recorder call is one sqlite statement in its own connection and    *)
(* transaction, so it is one step.                                         *)

TwoRuns == {1, 2}

InitTwo ==
    /\ runs = [r \in TwoRuns |-> LocalsInit("paired")]
    /\ db = <<>>
    /\ store = <<>>

NextTwo == \E r \in TwoRuns : Pipeline(r)

SpecTwo == InitTwo /\ [][NextTwo]_vars

----------------------------------------------------------------------------
(* deep_research_agent, the non-streaming entry point: it consumes the     *)
(* stream itself, with collect_results as the progress callback.  Neither  *)
(* its loop nor its callback fails on a progress event, so the steps of    *)
(* the pipeline are those in which the consumer takes every event.         *)

(* 1356-1361: collect_results keeps the data of a "result" update.  The    *)
(* callback is handed progress events only.                                *)
collect_results(update, result_data) ==
    IF update.type = "result" THEN Some(update.data) ELSE result_data

(* 1363-1372: the events of the run in order; a progress event goes to     *)
(* collect_results, any other is yielded to the loop, which returns on an  *)
(* error and otherwise goes on; after the stream, success with the data    *)
(* collect_results kept, or "No results generated".                        *)
RECURSIVE deep_research_agent(_, _)
deep_research_agent(log, result_data) ==
    IF log = <<>>
    THEN IF result_data # None
         THEN [success |-> TRUE, error |-> "", data |-> result_data]
         ELSE [success |-> FALSE, error |-> "No results generated", data |-> None]
    ELSE LET update == Head(log) IN
         IF update.type = "progress"
         THEN deep_research_agent(Tail(log), collect_results(update, result_data))
         ELSE IF update.type = "error"
         THEN [success |-> FALSE, error |-> update.tag, data |-> None]
         ELSE deep_research_agent(Tail(log), result_data)

(* The stream has ended and deep_research_agent returns. *)
AgentReturn(r) ==
    LET s == runs[r] IN
    /\ s.pc = "done"
    /\ Step(r, [s EXCEPT !.pc = "returned",
                         !.returned = deep_research_agent(s.emitted, None)])
    /\ UNCHANGED <<db, store>>

AgentPipeline(r) == Pipeline(r) /\ ~runs'[r].send_failed

InitAgent ==
    /\ runs \in [Runs -> {LocalsInit(f) : f \in {"paired", "retrieval"}}]
    /\ db = <<>>
    /\ store = <<>>

NextAgent == \E r \in Runs : AgentPipeline(r) \/ AgentReturn(r)

SpecAgent == InitAgent /\ [][NextAgent]_vars

----------------------------------------------------------------------------
(* Properties *)

Count(log, types) == Cardinality({i \in DOMAIN log : log[i].type \in types})

Ended(s) == s.pc \in {"done", "raised", "abandoned"}

Created(s) == s.research_slug # 0

RecordedAs(s, status, reason) ==
    /\ s.research_slug \in DOMAIN db
    /\ db[s.research_slug].status = status
    /\ db[s.research_slug].metadata.set
    /\ db[s.research_slug].metadata.val.error = reason

LastType(log) == IF log = <<>> THEN "" ELSE log[Len(log)].type

RECURSIVE Chunks(_)
Chunks(log) ==
    IF log = <<>> THEN <<>>
    ELSE (IF Head(log).type = "answer_chunk" THEN <<Head(log).text>> ELSE <<>>)
         \o Chunks(Tail(log))

RECURSIVE NonEmpty(_)
NonEmpty(frags) ==
    IF frags = <<>> THEN <<>>
    ELSE (IF Head(frags) # <<>> THEN <<Head(frags)>> ELSE <<>>) \o NonEmpty(Tail(frags))

UnsafeEvents(s) ==
    /\ Count(s.emitted, {"error"}) = 1
    /\ Count(s.emitted, {"progress", "answer_chunk"}) = 0

(* C1 as stated: for every run whose query is classified unsafe, exactly   *)
(* one error event, no progress and no answer_chunk event, and a created   *)
(* session is recorded failed with error "sexual_content_detected".        *)
C1_UnsafeRecordedAlways ==
    \A r \in Runs :
        runs[r].unsafe =>
            /\ UnsafeEvents(runs[r])
            /\ Created(runs[r]) =>
                   RecordedAs(runs[r], "failed", "sexual_content_detected")

(* C1 amended: the same, the record being required when the session row    *)
(* was created and the status write did not fail.                          *)
C1_UnsafeRefused ==
    \A r \in Runs :
        runs[r].unsafe =>
            /\ UnsafeEvents(runs[r])
            /\ (Created(runs[r]) /\ ~runs[r].write_failed) =>
                   RecordedAs(runs[r], "failed", "sexual_content_detected")

C1_Witness ==
    \E r \in Runs :
        /\ runs[r].unsafe /\ Created(runs[r]) /\ ~runs[r].write_failed
        /\ runs[r].pc = "done"

NoResultsEvents(s) ==
    /\ Count(s.emitted, {"error"}) = 1
    /\ \A i \in DOMAIN s.emitted :
           s.emitted[i].type = "error" => s.emitted[i].tag = "rephrasing"
    /\ Count(s.emitted, {"answer_chunk", "result"}) = 0

(* C2 as stated: for every run whose web search returns an empty list,     *)
(* exactly one error event, with the "rephrasing" message, no answer_chunk *)
(* or result event, and the session recorded failed / "no_web_results".    *)
C2_NoResultsRecordedAlways ==
    \A r \in Runs :
        runs[r].web_outcome = "empty" =>
            /\ NoResultsEvents(runs[r])
            /\ Created(runs[r]) => RecordedAs(runs[r], "failed", "no_web_results")

(* C2 amended: the same, the record being required when the session row    *)
(* was created and the status write did not fail.                          *)
C2_NoResultsFail ==
    \A r \in Runs :
        runs[r].web_outcome = "empty" =>
            /\ NoResultsEvents(runs[r])
            /\ (Created(runs[r]) /\ ~runs[r].write_failed) =>
                   RecordedAs(runs[r], "failed", "no_web_results")

C2_Witness ==
    \E r \in Runs :
        /\ runs[r].web_outcome = "empty" /\ Created(runs[r]) /\ ~runs[r].write_failed
        /\ runs[r].pc = "done"
        /\ LastType(runs[r].sent) = "error"

(* C3: when the web search raises, the run still ends with an error event  *)
(* and a created session is recorded failed / "no_web_results", as for an  *)
(* empty result list.                                                      *)
C3_WebRaiseRecorded ==
    \A r \in Runs :
        (runs[r].web_outcome = "raised" /\ Created(runs[r])) =>
            /\ Count(runs[r].emitted, {"error"}) + Count(runs[r].sent, {"error"}) >= 1
                   \/ runs[r].send_failed
            /\ RecordedAs(runs[r], "failed", "no_web_results")

(* C4: the status of a session changes only from running to completed or   *)
(* to failed, so at most once; no run attempts a second status write.      *)
C4_StatusOnce ==
    /\ [](\A r \in Runs : runs[r].writes <= 1)
    /\ [][\A k \in DOMAIN db :
             db'[k].status # db[k].status =>
                 /\ db[k].status = "running"
                 /\ db'[k].status \in {"completed", "failed"}]_vars

C4_Witness ==
    \E r \in Runs :
        /\ Created(runs[r]) /\ runs[r].writes = 1 /\ runs[r].pc = "done"
        /\ db[runs[r].research_slug].status = "completed"

(* C5: a run that created a session and has ended left it completed or     *)
(* failed; after an unhandled exception it is failed with an error reason. *)
C5_EndedRunRecorded ==
    \A r \in Runs :
        (Ended(runs[r]) /\ Created(runs[r]) /\ ~runs[r].write_failed) =>
            /\ db[runs[r].research_slug].status \in {"completed", "failed"}
            /\ runs[r].pc = "raised" =>
                   /\ db[runs[r].research_slug].status = "failed"
                   /\ db[runs[r].research_slug].metadata.set

(* C6: when the generation provider raises, the client receives the        *)
(* terminal "Research failed: <message>" error and the session is failed   *)
(* with the exception message in its metadata.                             *)
C6_GenFailureRecorded ==
    \A r \in Runs :
        (runs[r].pc = "raised" /\ runs[r].exc = "generation error") =>
            /\ ~runs[r].send_failed =>
                   /\ LastType(runs[r].sent) = "error"
                   /\ runs[r].sent[Len(runs[r].sent)].detail = "generation error"
            /\ Created(runs[r]) => RecordedAs(runs[r], "failed", "generation error")

(* C7: in a run that ends with a result event, the answer_chunk fragments  *)
(* concatenated in emission order are the answer of the result event, and  *)
(* they are the provider's text fragments in the provider's order.         *)
C7_ChunksAreAnswer ==
    \A r \in Runs :
        LastType(runs[r].emitted) = "result" =>
            /\ Concat(Chunks(runs[r].emitted)) = runs[r].emitted[Len(runs[r].emitted)].text
            /\ Chunks(runs[r].emitted) = NonEmpty(runs[r].provided)

C7_Witness ==
    \E r \in Runs :
        /\ LastType(runs[r].emitted) = "result"
        /\ Len(Chunks(runs[r].emitted)) = 2
        /\ Len(runs[r].emitted[Len(runs[r].emitted)].text) = 3

(* C8: a run emits at most one result or error event and nothing after it; *)
(* a run that ended normally ended with it, result for a completed session *)
(* and error for a failed one.                                             *)
C8_TerminalLast ==
    \A r \in Runs :
        /\ \A i \in DOMAIN runs[r].emitted :
               runs[r].emitted[i].type \in {"result", "error"} => i = Len(runs[r].emitted)
        /\ runs[r].pc = "done" =>
               /\ LastType(runs[r].emitted) \in {"result", "error"}
               /\ (Created(runs[r]) /\ db[runs[r].research_slug].status = "completed")
                      => LastType(runs[r].emitted) = "result"
               /\ (Created(runs[r]) /\ db[runs[r].research_slug].status = "failed")
                      => LastType(runs[r].emitted) = "error"

C8_Witness ==
    \E r \in Runs :
        /\ runs[r].pc = "done"
        /\ LastType(runs[r].emitted) = "result"
        /\ Count(runs[r].emitted, {"progress"}) >= 2
        /\ Count(runs[r].emitted, {"answer_chunk"}) >= 1

----------------------------------------------------------------------------
(* Context Assembler properties, on the state right after the assembly *)

Assembled(s) == s.pc = "p_generating"

RagHit(s) == s.rag_results.success /\ s.rag_results.results # <<>>

HasTier(parts, tier) == \E i \in DOMAIN parts : parts[i].tier = tier

RECURSIVE PartsOf(_, _)
PartsOf(parts, tier) ==
    IF parts = <<>> THEN <<>>
    ELSE (IF Head(parts).tier = tier THEN <<Head(parts)>> ELSE <<>>)
         \o PartsOf(Tail(parts), tier)

(* The ranks, among the first three hits, of the hits with content. *)
FilledTopHits(s) ==
    {i \in 1..Min(3, Len(s.rag_results.results)) : s.rag_results.results[i].content.len > 0}

(* C9 as stated: whenever the store query succeeded with at least one hit, *)
(* the context has a retrieval-store part and no raw web snippet, whatever *)
(* was scraped and whatever the hits contain.                              *)
C9_HitsAlwaysInContext ==
    \A r \in Runs :
        LET s == runs[r] IN
        (Assembled(s) /\ RagHit(s)) =>
            /\ HasTier(s.context_parts, "rag")
            /\ ~HasTier(s.context_parts, "web")

(* C9, amended: when the store query succeeded and one of its first three  *)
(* hits has non-empty content, the context holds the first 500 characters  *)
(* of every such hit and no raw web snippet, whatever was scraped.         *)
C9_FilledHitsInContext ==
    \A r \in Runs :
        LET s == runs[r] IN
        (Assembled(s) /\ RagHit(s) /\ FilledTopHits(s) # {}) =>
            /\ \A i \in FilledTopHits(s) :
                  \E j \in DOMAIN s.context_parts :
                     /\ s.context_parts[j].tier = "rag"
                     /\ s.context_parts[j].text.kind = "doc"
                     /\ s.context_parts[j].text.id = i
                     /\ s.context_parts[j].text.len =
                            Min(s.rag_results.results[i].content.len, 500)
            /\ ~HasTier(s.context_parts, "web")

(* C9 witness: hits with and without content, nothing scraped, web results *)
(* with title and body at hand, and a context made of store parts only.    *)
C9_Witness ==
    \E r \in Runs :
        LET s == runs[r] IN
        /\ Assembled(s) /\ RagHit(s) /\ FilledTopHits(s) # {}
        /\ \E i \in DOMAIN s.rag_results.results : s.rag_results.results[i].content.len = 0
        /\ s.scraped_content = <<>>
        /\ \E i \in DOMAIN s.web_results : s.web_results[i].title
        /\ s.context_parts # <<>>
        /\ \A j \in DOMAIN s.context_parts : s.context_parts[j].tier = "rag"

(* C10 as stated: a strict priority chain, a scraped-page snippet is in    *)
(* the context only when the store query did not succeed with a hit, and a *)
(* context with a retrieval-store part has no scraped-page snippet.        *)
C10_ScrapedOnlyWithoutHits ==
    \A r \in Runs :
        LET s == runs[r] IN
        Assembled(s) =>
            /\ HasTier(s.context_parts, "scraped") => ~RagHit(s)
            /\ HasTier(s.context_parts, "rag") => ~HasTier(s.context_parts, "scraped")

(* C10, amended: the first three scraped pages, 500 characters each, are   *)
(* in the context whenever any page was scraped, after the store parts if  *)
(* there are any; only the raw web snippets are a fallback, present only   *)
(* when there is neither a store part nor a scraped part.                  *)
C10_ScrapedAlwaysAdded ==
    \A r \in Runs :
        LET s == runs[r]
            sp == PartsOf(s.context_parts, "scraped")
        IN
        Assembled(s) =>
            /\ Len(sp) = Min(3, Len(s.scraped_content))
            /\ \A i \in DOMAIN sp :
                  /\ sp[i].url = s.scraped_content[i].url
                  /\ sp[i].text.kind = s.scraped_content[i].content.kind
                  /\ sp[i].text.id = s.scraped_content[i].content.id
                  /\ sp[i].text.len = Min(s.scraped_content[i].content.len, 500)
            /\ \A i, j \in DOMAIN s.context_parts :
                  (s.context_parts[i].tier = "rag" /\ s.context_parts[j].tier = "scraped")
                      => i < j
            /\ HasTier(s.context_parts, "web") =>
                  /\ ~HasTier(s.context_parts, "rag")
                  /\ ~HasTier(s.context_parts, "scraped")

(* C10 witness: more than three pages scraped, a store hit with content,   *)
(* and a context with store parts followed by three scraped snippets.      *)
C10_Witness ==
    \E r \in Runs :
        LET s == runs[r] IN
        /\ Assembled(s) /\ RagHit(s)
        /\ Len(s.scraped_content) > 3
        /\ HasTier(s.context_parts, "rag")
        /\ Len(PartsOf(s.context_parts, "scraped")) = 3

----------------------------------------------------------------------------
(* Ambiguity gate and caller disconnect *)

UnclearFailed(s) == \E i \in DOMAIN s.emitted : s.emitted[i].tag = "unclear"

(* None of the three context tiers has anything to offer. *)
NoTierContent(s) == AssembleContext(s.rag_results, s.scraped_content, s.web_results) = <<>>

PassedGate(s) == s.pc \in {"p_image_search", "p_news_search"}

(* C11 as stated: the run fails as unclear exactly when the analyzer marked *)
(* the query unclear and neither the store hits, nor the scraped pages, nor *)
(* the raw web results have content; in particular a run that fails as      *)
(* unclear has no raw web snippet, and a run that passes the gate is clear  *)
(* or has content in one of the tiers.                                      *)
C11_GateIffNoContent ==
    \A r \in Runs :
        LET s == runs[r] IN
        /\ UnclearFailed(s) => (~s.is_clear /\ NoTierContent(s))
        /\ PassedGate(s) => ~(~s.is_clear /\ NoTierContent(s))

(* C12 as stated: after the caller stopped consuming mid-stream (a send to *)
(* the client failed after at least one event was delivered), the created  *)
(* session does not stay running once the run has ended; an ended run      *)
(* takes no further step, so its session status is final.                  *)
C12_DisconnectFinalized ==
    \A r \in Runs :
        LET s == runs[r] IN
        (Ended(s) /\ s.send_failed /\ s.sent # <<>> /\ Created(s) /\ ~s.write_failed)
            => db[s.research_slug].status # "running"

----------------------------------------------------------------------------
(* The complete run *)

(* Every web result has a URL, there are at most five, and each page was   *)
(* scraped.                                                                *)
AllScraped(s) ==
    /\ s.web_outcome = "results"
    /\ Len(s.web_results) <= 5
    /\ \A i \in DOMAIN s.web_results : s.web_results[i].href # NoUrl
    /\ Len(s.scraped_content) = Len(s.web_results)

ResultOf(s) == s.emitted[Len(s.emitted)]

CompleteResult(s) ==
    /\ LastType(s.emitted) = "result"
    /\ ResultOf(s).data.sources_count = Len(s.web_results)
    /\ ResultOf(s).text = Concat(Chunks(s.emitted))
    /\ Created(s) => db[s.research_slug].status = "completed"

C14_CompletedRecord ==
    \A r \in Runs :
        LET s == runs[r] IN
        (LastType(s.emitted) = "result" /\ Created(s) /\ ~s.write_failed) =>
            /\ db[s.research_slug].status = "completed"
            /\ db[s.research_slug].answer = Some(s.full_answer)
            /\ db[s.research_slug].resources_used =
                   Some(Keys(s.scraped_content)
                        \o Hrefs(s.web_results)
                        \o ItemUrls(s.saved_videos)
                        \o ItemUrls(s.news_results))

----------------------------------------------------------------------------
(* The events of a run as a function of everything but the recorder *)

View(log) == [i \in DOMAIN log |-> <<log[i].type, log[i].tag>>]

Repeat(x, n) == [i \in 1..n |-> x]

(* What a run that ran to its end hands to the caller, from the outcomes   *)
(* of the safety check, the searches, the scraper, the store and the       *)
(* generation; the session id, the session table and the outcome of the    *)
(* session writes do not occur in it.                                      *)
ExpectedView(s) ==
    IF s.unsafe THEN <<(<<"error", "refusal">>)>>
    ELSE IF s.web_outcome = "empty" THEN <<(<<"error", "rephrasing">>)>>
    ELSE IF \A i \in DOMAIN s.web_results : s.web_results[i].href = NoUrl
    THEN << <<"progress", "scraping">>, <<"result", "">> >>
    ELSE IF /\ s.scraped_content = <<>>
            /\ ~(s.rag_results.success /\ s.rag_results.results # <<>>)
            /\ ~s.is_clear
    THEN << <<"progress", "scraping">>, <<"progress", "saving">>,
            <<"progress", "rag_query">>, <<"error", "unclear">> >>
    ELSE << <<"progress", "scraping">>, <<"progress", "saving">>,
            <<"progress", "rag_query">> >>
         \o (IF s.needs_images THEN <<(<<"progress", "image_search">>)>> ELSE <<>>)
         \o << <<"progress", "news_search">>, <<"progress", "youtube_search">>,
               <<"progress", "analyzing_data">>, <<"progress", "generating">> >>
         \o Repeat(<<"answer_chunk", "">>, Len(NonEmpty(s.provided)))
         \o << <<"progress", "saving">>, <<"result", "">> >>

(* C15: a failing session write (create or update) never makes the run     *)
(* raise and never shows in what the caller receives: a run that ran to    *)
(* its end emitted the event types, in the order, that the other outcomes  *)
(* determine, and its answer is the text the provider streamed, whether or *)
(* not the session was created and whether or not a status write failed.   *)
C15_RecorderFailureInvisible ==
    \A r \in Runs :
        LET s == runs[r] IN
        /\ s.exc \in {"", "web_search error", "image_search error",
                      "generation error", "send failed"}
        /\ s.pc = "done" =>
              /\ View(s.emitted) = ExpectedView(s)
              /\ LastType(s.emitted) = "result" =>
                     ResultOf(s).text = Concat(NonEmpty(s.provided))

(* C15 witness: a run whose completed write failed, the session still     *)
(* running, ended with the result event and a non-empty answer.            *)
C15_Witness ==
    \E r \in Runs :
        LET s == runs[r] IN
        /\ s.pc = "done" /\ LastType(s.emitted) = "result"
        /\ Created(s) /\ s.write_failed
        /\ db[s.research_slug].status = "running"
        /\ ResultOf(s).text # <<>>

----------------------------------------------------------------------------
(* Progress events *)

RECURSIVE ProgressTags(_)
ProgressTags(log) ==
    IF log = <<>> THEN <<>>
    ELSE (IF Head(log).type = "progress" THEN <<Head(log).tag>> ELSE <<>>)
         \o ProgressTags(Tail(log))

StageOrder == <<"scraping", "saving", "rag_query", "image_search", "news_search",
                "youtube_search", "analyzing_data", "generating">>

Rank(tag) == CHOOSE k \in DOMAIN StageOrder : StageOrder[k] = tag

IsPrefix(a, b) == Len(a) <= Len(b) /\ \A i \in DOMAIN a : a[i] = b[i]

(* C16 as stated: the stage names of the progress events handed to the     *)
(* callback are pairwise different and follow the order scraping, saving,  *)
(* rag_query, image_search, news_search, youtube_search, analyzing_data,   *)
(* generating.                                                             *)
C16_StagesOnceInOrder ==
    \A r \in Runs :
        LET tags == ProgressTags(runs[r].emitted) IN
        \A i, j \in DOMAIN tags : i < j => Rank(tags[i]) < Rank(tags[j])

(* C16, amended: the stage names handed to the callback are a prefix of    *)
(* scraping, saving, rag_query, image_search (only if images are needed),  *)
(* news_search, youtube_search, analyzing_data, generating, saving: every  *)
(* name at most once, except saving, which is announced a second time,     *)
(* after generating, when the transcript is stored.                        *)
C16_StagesInPipelineOrder ==
    \A r \in Runs :
        LET s == runs[r] IN
        IsPrefix(ProgressTags(s.emitted),
                 <<"scraping", "saving", "rag_query">>
                 \o (IF s.needs_images THEN <<"image_search">> ELSE <<>>)
                 \o <<"news_search", "youtube_search", "analyzing_data", "generating",
                      "saving">>)

(* C16 witness: a run with images that announced all nine stages. *)
C16_Witness ==
    \E r \in Runs :
        LET s == runs[r] IN
        /\ s.needs_images
        /\ Len(ProgressTags(s.emitted)) = 9
        /\ LastType(s.emitted) = "result"

(* A progress event was handed to the callback and the callback raised. *)
CallbackRaised(s) == Len(ProgressTags(s.emitted)) > Len(ProgressTags(s.sent))

(* C17 as stated: a run in which the progress callback raised still runs   *)
(* to its end: it ends with its result or error event and the created      *)
(* session is finalized.                                                   *)
C17_ProgressBestEffort ==
    \A r \in Runs :
        LET s == runs[r] IN
        (Ended(s) /\ CallbackRaised(s)) =>
            /\ s.pc = "done"
            /\ LastType(s.emitted) \in {"result", "error"}
            /\ (Created(s) /\ ~s.write_failed) => db[s.research_slug].status # "running"

----------------------------------------------------------------------------
(* The refused run *)

(* No stage after the safety check has left a trace in the run's locals. *)
NoLaterStage(s) ==
    [s EXCEPT !.pc = "create", !.research_slug = 0, !.emitted = <<>>, !.sent = <<>>,
              !.unsafe = FALSE, !.safety_reply = NoReply, !.writes = 0, !.write_failed = FALSE,
              !.send_failed = FALSE, !.exc = ""]
        = LocalsInit(s.focus)

(* C20: once the query is classified unsafe the run is over: no analysis,  *)
(* search, scraping, indexing, store query, media search or generation has *)
(* happened or happens afterwards (the run takes no further step), and the *)
(* answer of its session stays null.                                       *)
C20_UnsafeStops ==
    /\ [](\A r \in Runs :
            LET s == runs[r] IN
            s.unsafe =>
                /\ s.pc \in {"done", "abandoned"}
                /\ NoLaterStage(s)
                /\ Created(s) => db[s.research_slug].answer = None)
    /\ [][\A r \in Runs : runs[r].unsafe => (runs'[r] = runs[r] /\ db' = db)]_vars

(* C20 witness: a refused run whose session is recorded failed, without an *)
(* answer.                                                                 *)
C20_Witness ==
    \E r \in Runs :
        LET s == runs[r] IN
        /\ s.unsafe /\ s.pc = "done" /\ Created(s)
        /\ db[s.research_slug].status = "failed"
        /\ db[s.research_slug].answer = None

----------------------------------------------------------------------------
(* Bounded fan-out *)

(* The ranks of the web results that carry a URL. *)
Candidates(s) == {k \in DOMAIN s.web_results : s.web_results[k].href # NoUrl}

(* C18: the scraper is called at most once in a run, with the URLs of the  *)
(* first five web results that have one, in rank order: min(5, n) URLs for *)
(* n candidates, the i-th of them being the URL of the i-th candidate; and *)
(* every page in scraped_content is one of them.                           *)
C18_FirstFiveScraped ==
    \A r \in Runs :
        LET s == runs[r] IN
        /\ Len(s.scrape_calls) <= 1
        /\ s.scrape_calls # <<>> =>
              LET a == s.scrape_calls[1] IN
              /\ Len(a) = Min(5, Cardinality(Candidates(s)))
              /\ \A i \in DOMAIN a :
                    \E k \in Candidates(s) :
                       /\ Cardinality({j \in Candidates(s) : j <= k}) = i
                       /\ a[i] = s.web_results[k].href
              /\ \A i \in DOMAIN s.scraped_content :
                    \E j \in DOMAIN a : s.scraped_content[i].url = a[j]
        /\ s.scrape_calls = <<>> => s.scraped_content = <<>>

(* C18 witness: ten candidate URLs, five handed to the scraper and all     *)
(* five scraped.                                                           *)
C18_Witness ==
    \E r \in Runs :
        LET s == runs[r] IN
        /\ Cardinality(Candidates(s)) = 10
        /\ s.scrape_calls # <<>>
        /\ Len(s.scrape_calls[1]) = 5
        /\ Len(s.scraped_content) = 5

----------------------------------------------------------------------------
(* Indexing *)

StoreDocs(st) == {st[i].document : i \in DOMAIN st}

(* The chunks of the pages a run has scraped. *)
RunDocs(s) ==
    UNION {{chunks_of(s.scraped_content[i].content)[j] :
               j \in DOMAIN chunks_of(s.scraped_content[i].content)} :
           i \in DOMAIN s.scraped_content}

(* C19: the collection never holds two records with the same id, records   *)
(* with the same content have the same id (the id is a function of the     *)
(* content, whatever the URL, the position and the time), and indexing     *)
(* pages whose chunks the collection already holds leaves the collection   *)
(* as it is; no indexing removes or rewrites a record.                     *)
C19_IndexingIdempotent ==
    /\ [](\A i, j \in DOMAIN store :
             /\ store[i].id = store[j].id => i = j
             /\ store[i].document = store[j].document => store[i].id = store[j].id)
    /\ [][/\ IsPrefix(store, store')
          /\ \A r \in Runs :
                (runs[r].pc = "save_rag" /\ RunDocs(runs[r]) \subseteq StoreDocs(store))
                    => store' = store]_vars

(* C19 witness: a run has indexed its pages with success, and the          *)
(* collection holds their chunks, all of them as saved by the earlier run. *)
C19_Witness ==
    \E r \in Runs :
        LET s == runs[r] IN
        /\ s.pc = "p_rag_query" /\ s.rag_save_success
        /\ Len(s.scraped_content) >= 2
        /\ RunDocs(s) \subseteq StoreDocs(store)
        /\ \A i \in DOMAIN store : store[i].metadata.saved_at = 0

(* The safety check has answered, and its call raised or its reply is not  *)
(* YES once trimmed and upper-cased.                                       *)
NotYes(reply) ==
    /\ reply # NoReply
    /\ reply.raised \/ upper(strip(reply.text)) # <<"Y", "E", "S">>

Refusals(s) == {i \in DOMAIN s.emitted : s.emitted[i] = ErrorEvent("refusal", s.research_slug)}

(* C21: when the classification call raises or its reply is anything but   *)
(* YES after trimming and upper-casing, the query is treated as safe: no   *)
(* refusal is emitted, the failure "sexual_content_detected" is not        *)
(* recorded, and the run goes on to query analysis, decomposition and the  *)
(* web search; a reply that is YES after trimming and upper-casing is      *)
(* refused.                                                                *)
C21_SafetyFailsOpen ==
    /\ [](\A r \in Runs :
            LET s == runs[r] IN
            /\ NotYes(s.safety_reply) =>
                  /\ ~s.unsafe
                  /\ Refusals(s) = {}
                  /\ s.pc \notin {"create", "safety"}
                  /\ s.pc \notin {"analyze", "sub_questions", "web_search"}
                        => s.web_outcome # ""
                  /\ Created(s) /\ db[s.research_slug].status = "failed"
                        => db[s.research_slug].metadata # FailedMeta("sexual_content_detected")
            /\ s.safety_reply # NoReply /\ ~NotYes(s.safety_reply) => s.unsafe)
    /\ [][\A r \in Runs :
            runs[r].pc = "safety" /\ NotYes(runs'[r].safety_reply)
                => runs'[r].pc = "analyze" /\ db' = db]_vars

C21_Witness ==
    \E r \in Runs :
        LET s == runs[r] IN
        /\ s.safety_reply = [raised |-> FALSE, text |-> <<"Y", "E", "S", ".">>]
        /\ s.web_outcome = "results"
        /\ LastType(s.emitted) = "result"

(* C22: a failed or unparsable query-analysis or decomposition call does   *)
(* not fail the run: the step after it is the next stage, with nothing     *)
(* recorded and nothing emitted, and from then on the run has needs_images *)
(* = false, needs_news = false, is_clear = true (after a failed analysis)  *)
(* and an empty sub-question list (after a failed decomposition); such a   *)
(* run never announces the image search nor reports an unclear query.      *)
C22_AnalysisFailureDefaults ==
    /\ [](\A r \in Runs :
            LET s == runs[r] IN
            /\ s.analysis_failed =>
                  /\ ~s.needs_images /\ ~s.needs_news /\ s.is_clear
                  /\ \A i \in DOMAIN s.emitted :
                        /\ s.emitted[i] # ProgressEvent("image_search")
                        /\ s.emitted[i] # ErrorEvent("unclear", s.research_slug)
            /\ s.sub_questions_failed => s.sub_questions = <<>>)
    /\ [][\A r \in Runs :
            /\ runs[r].pc = "analyze" =>
                  /\ runs'[r].pc = "sub_questions"
                  /\ runs'[r].emitted = runs[r].emitted /\ db' = db
            /\ runs[r].pc = "sub_questions" =>
                  /\ runs'[r].pc = "web_search"
                  /\ runs'[r].emitted = runs[r].emitted /\ db' = db]_vars

C22_Witness ==
    \E r \in Runs :
        LET s == runs[r] IN
        /\ s.analysis_failed /\ s.sub_questions_failed
        /\ s.web_outcome = "results"
        /\ LastType(s.emitted) = "result"
        /\ Created(s) /\ db[s.research_slug].status = "completed"

(* The URLs the scraper fetched and formatted: those with a page, not an   *)
(* "Error: ..." string, in the dictionary it built.                        *)
ScrapedOk(s) ==
    {s.results_dict[i].url :
        i \in {j \in DOMAIN s.results_dict : ~StartsWithError(s.results_dict[j].content)}}

AfterScraping(s) == s.scrape_calls # <<>>

(* C23: after the scraping stage scraped_content holds exactly the         *)
(* attempted URLs whose scrape succeeded, each with its page and none with *)
(* an error string, so that a failing URL removes no other URL's entry;    *)
(* and the run is not ended by the scraper.                                *)
C23_ScrapePerUrl ==
    \A r \in Runs :
        LET s == runs[r] IN
        AfterScraping(s) =>
            /\ {s.scraped_content[i].url : i \in DOMAIN s.scraped_content} = ScrapedOk(s)
            /\ \A i \in DOMAIN s.scraped_content :
                  ~StartsWithError(s.scraped_content[i].content)
            /\ ScrapedOk(s) \subseteq {s.scrape_calls[1][j] : j \in DOMAIN s.scrape_calls[1]}

(* C24: when image search is flagged and the image search provider raises, *)
(* the image result set is empty, nothing is raised out of the run, and    *)
(* the run goes on to the news search and, once ended, has yielded a       *)
(* result event.                                                           *)
C24_ImageSearchBestEffort ==
    \A r \in Runs :
        LET s == runs[r] IN
        s.needs_images /\ s.image_outcome = "raised" =>
            /\ s.md_images = <<>>
            /\ s.exc = ""
            /\ \E i \in DOMAIN s.emitted : s.emitted[i] = ProgressEvent("news_search")
            /\ Ended(s) => \E i \in DOMAIN s.emitted : s.emitted[i].type = "result"

ModalityRaised(s) ==
    \/ s.news_outcome \in {"search_raised", "save_raised"}
    \/ s.video_outcome \in {"search_raised", "save_raised"}

(* C25: when the news provider or the video provider raises, the step of   *)
(* that stage raises nothing, emits nothing and leads to the next stage    *)
(* (the video search, the assembly of the context); the modality's result  *)
(* set is empty when its search raised and is otherwise the items fetched  *)
(* before the exception; and a run that returns after such an exception    *)
(* returns after a result event.                                           *)
C25_NewsVideoBestEffort ==
    /\ [](\A r \in Runs :
            LET s == runs[r] IN
            /\ s.news_outcome = "search_raised" => s.news_results = <<>>
            /\ s.video_outcome = "search_raised" => s.saved_videos = <<>>
            /\ s.exc \notin {"news_search error", "youtube_search error"}
            /\ ModalityRaised(s) /\ s.pc = "done" => LastType(s.emitted) = "result")
    /\ [][\A r \in Runs :
            /\ runs[r].pc = "news_search" =>
                  /\ runs'[r].pc = "p_youtube_search"
                  /\ runs'[r].exc = runs[r].exc /\ runs'[r].emitted = runs[r].emitted
            /\ runs[r].pc = "youtube_search" =>
                  /\ runs'[r].pc = "p_analyzing_data"
                  /\ runs'[r].exc = runs[r].exc /\ runs'[r].emitted = runs[r].emitted]_vars

C25_Witness ==
    \E r \in Runs :
        LET s == runs[r] IN
        /\ s.news_outcome = "search_raised" /\ s.video_outcome = "search_raised"
        /\ s.pc = "done" /\ LastType(s.emitted) = "result"
        /\ Created(s) /\ db[s.research_slug].status = "completed"

(* C26 as stated: when the retrieval store is unavailable the query        *)
(* returns success = false and no hits, a run that has scraped pages or    *)
(* raw web-search snippets is not failed at the gate, and the context it   *)
(* assembles is made of the scraped pages, or of the raw web-search        *)
(* snippets when nothing was scraped.                                      *)
C26_StoreUnavailableTolerated ==
    \A r \in Runs :
        LET s == runs[r] IN
        s.rag_outcome = "unavailable" =>
            /\ ~s.rag_results.success /\ s.rag_results.results = <<>>
            /\ ~NoTierContent(s) => ~UnclearFailed(s)
            /\ Assembled(s) =>
                  s.context_parts =
                      IF s.scraped_content # <<>>
                      THEN ScrapedParts(Take(s.scraped_content, TopK))
                      ELSE WebParts(Take(s.web_results, TopK))

(* The run that owns the session k. *)
Owners(k) == {r \in DOMAIN runs : runs[r].research_slug = k}

(* C27: with two runs interleaved at will, two sessions never share a      *)
(* slug, a step changes a row only when it is a step of the run whose      *)
(* slug the row has (and then no other row), and so what a session shows   *)
(* was written by its own run: a completed session has the answer, the     *)
(* resources and the metadata of its own run, a failed one belongs to a    *)
(* run that has yielded its error event or has not passed it, and a        *)
(* running one to a run none of whose writes went through.                 *)
C27_RunsWriteOwnRow ==
    /\ [](/\ \A k \in DOMAIN db : Cardinality(Owners(k)) <= 1
          /\ \A r \in DOMAIN runs : Created(runs[r]) => runs[r].research_slug \in DOMAIN db
          /\ \A r \in DOMAIN runs :
                LET s == runs[r] IN
                Created(s) =>
                    LET row == db[s.research_slug] IN
                    /\ row.status = "completed" =>
                          /\ s.pc \in {"result", "done", "abandoned", "raised"}
                          /\ s.writes = 1 /\ ~s.write_failed
                          /\ row.answer = Some(s.full_answer)
                          /\ row.resources_used = Some(all_resources(s))
                          /\ row.metadata = CompletedMeta(s)
                    /\ row.status = "failed" =>
                          /\ s.writes = 1 /\ ~s.write_failed
                          /\ Count(s.emitted, {"error"}) = 1
                          /\ row.answer = None
                    /\ row.status = "running" => (s.writes = 0 \/ s.write_failed))
    /\ [][\A k \in DOMAIN db :
             db'[k] # db[k] =>
                 /\ \E r \in Owners(k) : runs'[r] # runs[r]
                 /\ \A j \in DOMAIN db \ {k} : db'[j] = db[j]]_vars

(* C27 witness: both runs have ended, one session completed and the other  *)
(* failed, the failed one created first and written last.                  *)
C27_Witness ==
    /\ DOMAIN runs = TwoRuns
    /\ \A r \in TwoRuns : runs[r].pc = "done" /\ Created(runs[r])
    /\ runs[1].research_slug = 2 /\ runs[2].research_slug = 1
    /\ db[1].status = "completed" /\ db[2].status = "failed"

Outcome(row) == <<row.answer, row.resources_used, row.duration>>

(* C28: a session whose status is running has no answer, no resources_used *)
(* and no duration; and a step changes one of these fields of a session    *)
(* only when it moves the session from running to completed or failed.     *)
C28_RunningHasNoOutcome ==
    /\ [](\A k \in DOMAIN db :
            db[k].status = "running" => Outcome(db[k]) = <<None, None, None>>)
    /\ [][\A k \in DOMAIN db :
             Outcome(db'[k]) # Outcome(db[k]) =>
                 /\ db[k].status = "running"
                 /\ db'[k].status \in {"completed", "failed"}]_vars

(* C28 witness: the answer is being streamed, with part of it already      *)
(* yielded, and the session is still running.                              *)
C28_Witness ==
    \E r \in Runs :
        LET s == runs[r] IN
        /\ s.pc = "streaming" /\ s.full_answer # <<>> /\ Created(s)
        /\ db[s.research_slug].status = "running"

(* C29 as stated: the news items a run keeps number at most 5 and no two   *)
(* of them are on the same domain; the references and the result count     *)
(* them as kept.                                                           *)
C29_NewsDedupedByDomain ==
    \A r \in Runs :
        LET s == runs[r]
            kept == ItemUrls(s.news_results)
        IN
        /\ Len(s.news_results) <= 5
        /\ \A i, j \in DOMAIN kept : netloc(kept[i]) = netloc(kept[j]) => i = j

(* C30 as stated: deep_research_agent returns success = true with the data *)
(* of the result event whenever the run ended with a result event, and     *)
(* success = false with the message of the error event whenever the run    *)
(* ended with an error event.                                              *)
C30_AgentReturnsOutcome ==
    \A r \in Runs :
        LET s == runs[r] IN
        s.pc = "returned" =>
            /\ LastType(s.emitted) = "result" =>
                  /\ s.returned.success
                  /\ s.returned.data = Some(ResultOf(s).data)
            /\ LastType(s.emitted) = "error" =>
                  /\ ~s.returned.success
                  /\ s.returned.error = ResultOf(s).tag

----------------------------------------------------------------------------
(* Chunking *)

Ceil(a, b) == (a + b - 1) \div b

(* The chunks r[1..n] are consecutive slices of the text from offset 0,    *)
(* and together they are the whole text.                                   *)
RECURSIVE JoinedLen(_)
JoinedLen(recs) ==
    IF recs = <<>> THEN 0 ELSE Head(recs).document.len + JoinedLen(Tail(recs))

GivesBack(recs, content) ==
    /\ JoinedLen(recs) = content.len
    /\ \A i \in DOMAIN recs :
          /\ recs[i].document.kind = content.kind
          /\ recs[i].document.id = content.id
          /\ recs[i].document.off = JoinedLen(SubSeq(recs, 1, i - 1))

(* C31: for every scraped text, the records save_scraped_content builds    *)
(* have chunks of at most 1000 characters, chunk_index 0..total_chunks-1   *)
(* in order, total_chunks = ceil(length/1000), exactly 1000 characters in  *)
(* every chunk but the last, and the chunks joined in chunk_index order    *)
(* are the text; and every record the run has put in the collection is one *)
(* of these.                                                               *)
C31_ChunksOfThousand ==
    \A r \in Runs :
        LET s == runs[r] IN
        /\ \A p \in DOMAIN s.scraped_content :
              LET page == s.scraped_content[p]
                  recs == PageRecords(page, Now)
              IN
              /\ Len(recs) = Ceil(page.content.len, 1000)
              /\ \A i \in DOMAIN recs :
                    /\ recs[i].document.len <= 1000
                    /\ recs[i].document.len > 0
                    /\ i < Len(recs) => recs[i].document.len = 1000
                    /\ recs[i].metadata.chunk_index = i - 1
                    /\ recs[i].metadata.total_chunks = Len(recs)
                    /\ recs[i].metadata.url = page.url
              /\ GivesBack(recs, page.content)
        /\ \A k \in DOMAIN store :
              store[k].metadata.saved_at = Now =>
                  \E p \in DOMAIN s.scraped_content :
                     \E i \in DOMAIN PageRecords(s.scraped_content[p], Now) :
                        /\ PageRecords(s.scraped_content[p], Now)[i].document = store[k].document
                        /\ PageRecords(s.scraped_content[p], Now)[i].metadata = store[k].metadata

(* C31 witness: a page of 1500 characters was indexed into the empty       *)
(* collection as a chunk of 1000 and a chunk of 500 characters, and a page *)
(* of exactly 1000 characters as one chunk.                                *)
C31_Witness ==
    \E r \in Runs :
        LET s == runs[r] IN
        /\ s.pc = "p_rag_query" /\ s.rag_save_success
        /\ \E i, j \in DOMAIN store :
              /\ store[i].metadata.saved_at = Now /\ store[j].metadata.saved_at = Now
              /\ store[i].metadata.url = store[j].metadata.url
              /\ store[i].metadata.chunk_index = 0 /\ store[i].document.len = 1000
              /\ store[j].metadata.chunk_index = 1 /\ store[j].document.len = 500
              /\ store[j].metadata.total_chunks = 2
        /\ \E k \in DOMAIN store :
              /\ store[k].metadata.saved_at = Now
              /\ store[k].metadata.total_chunks = 1 /\ store[k].document.len = 1000

----------------------------------------------------------------------------
(* Result event and finalization *)

HasResult(s) == \E i \in DOMAIN s.emitted : s.emitted[i].type = "result"

(* C32 as stated: whenever a run whose session was created has emitted a   *)
(* result event, the completed write for that session has been attempted,  *)
(* and, when it went through, the session is completed with the answer of  *)
(* the result event; so no result event comes with a session still running *)
(* and no write attempted.                                                 *)
C32_ResultAfterFinalization ==
    \A r \in Runs :
        LET s == runs[r] IN
        (HasResult(s) /\ Created(s)) =>
            /\ s.writes >= 1
            /\ ~s.write_failed =>
                  /\ db[s.research_slug].status = "completed"
                  /\ db[s.research_slug].answer = Some(ResultOf(s).text)

----------------------------------------------------------------------------
(* The unclear-query failure *)

UnclearEvents(s) ==
    /\ Count(s.emitted, {"error"}) = 1
    /\ LastType(s.emitted) = "error" /\ ResultOf(s).tag = "unclear"
    /\ Count(s.emitted, {"answer_chunk", "result"}) = 0

(* Neither the image, news or video search nor the synthesis call was made *)
(* or announced.                                                           *)
NothingAfterGate(s) ==
    /\ s.image_outcome = "" /\ s.news_outcome = "" /\ s.video_outcome = ""
    /\ s.provided = <<>> /\ s.context_parts = <<>>
    /\ \A i \in DOMAIN s.emitted :
          s.emitted[i].type = "progress" =>
              s.emitted[i].tag \in {"scraping", "saving", "rag_query"}

(* C33 as stated: when the run fails with unclear_query, one error event   *)
(* is emitted, the created session is recorded failed with error           *)
(* "unclear_query", no answer and the web-result URLs in rank order as     *)
(* resources_used, and no later stage happens.                             *)
C33_UnclearRecordedAlways ==
    \A r \in Runs :
        LET s == runs[r] IN
        (UnclearFailed(s) /\ Created(s)) =>
            /\ UnclearEvents(s)
            /\ NothingAfterGate(s)
            /\ RecordedAs(s, "failed", "unclear_query")
            /\ db[s.research_slug].answer = None
            /\ db[s.research_slug].resources_used = Some(Hrefs(s.web_results))

(* C33, amended: the events and the absence of later stages as stated, for *)
(* every run that fails as unclear, and the run takes no further step; the *)
(* record as stated when the session was created and the status write did  *)
(* not raise.                                                              *)
C33_UnclearFails ==
    /\ [](\A r \in Runs :
            LET s == runs[r] IN
            UnclearFailed(s) =>
                /\ UnclearEvents(s)
                /\ NothingAfterGate(s)
                /\ s.pc \in {"done", "abandoned"}
                /\ (Created(s) /\ ~s.write_failed) =>
                      /\ RecordedAs(s, "failed", "unclear_query")
                      /\ db[s.research_slug].answer = None
                      /\ db[s.research_slug].resources_used = Some(Hrefs(s.web_results)))
    /\ [][\A r \in Runs : UnclearFailed(runs[r]) => (runs'[r] = runs[r] /\ db' = db)]_vars

(* C33 witness: an unclear query with two web results, each with a URL,    *)
(* failed at the gate and recorded with both URLs.                         *)
C33_Witness ==
    \E r \in Runs :
        LET s == runs[r] IN
        /\ UnclearFailed(s) /\ s.pc = "done" /\ Created(s) /\ ~s.write_failed
        /\ Len(Hrefs(s.web_results)) = 2
        /\ db[s.research_slug].status = "failed"
        /\ Len(db[s.research_slug].resources_used.val) = 2

----------------------------------------------------------------------------
(* The media searches *)

(* The gate was reached and did not fail the run. *)
GatePassed(s) == s.rag_outcome # "" /\ s.pc # "gate" /\ ~UnclearFailed(s)

Increasing(ranks) == \A i, j \in DOMAIN ranks : i < j => ranks[i] < ranks[j]

(* C34 as stated: image search is invoked only when needs_images was       *)
(* flagged; news search and video search are invoked in every run that     *)
(* passes the ambiguity gate, so a run that passed it and has ended has    *)
(* made both; at most 3 images and at most 2 videos are retained, in       *)
(* provider rank order.                                                    *)
C34_MediaSearchGating ==
    \A r \in Runs :
        LET s == runs[r] IN
        /\ s.image_outcome # "" => s.needs_images
        /\ (GatePassed(s) /\ Ended(s)) => (s.news_outcome # "" /\ s.video_outcome # "")
        /\ Len(s.md_images) <= 3 /\ Len(s.saved_videos) <= 2
        /\ Increasing([i \in DOMAIN s.md_images |-> s.md_images[i].url[2]])

----------------------------------------------------------------------------
(* What the websocket handler sends *)

IsPipelineEvent(ev) == ev.tag # "Research failed: "

(* The events of the pipeline among those sent to the client. *)
SentOfPipeline(s) == SelectSeq(s.sent, IsPipelineEvent)

RECURSIVE IsSubsequence(_, _)
IsSubsequence(a, b) ==
    IF a = <<>> THEN TRUE
    ELSE IF b = <<>> THEN FALSE
    ELSE IF Head(a) = Head(b) THEN IsSubsequence(Tail(a), Tail(b))
    ELSE IsSubsequence(a, Tail(b))

(* The log without the progress events that follow an answer chunk or the  *)
(* generating event: the announcement made before the transcript is        *)
(* stored, whose failed send the pipeline swallows.                        *)
RECURSIVE DropLateProgress(_, _)
DropLateProgress(log, late) ==
    IF log = <<>> THEN <<>>
    ELSE IF late /\ Head(log).type = "progress"
    THEN DropLateProgress(Tail(log), late)
    ELSE <<Head(log)>> \o DropLateProgress(Tail(log),
                                           late \/ Head(log) = ProgressEvent("generating"))

(* C35: what the handler has sent of the pipeline's events is in the order *)
(* the pipeline produced them, and is all of them as long as no send has   *)
(* failed (all but the announcement made before the transcript is stored,  *)
(* when that send failed and the pipeline went on); the generating         *)
(* progress event is sent before the first answer_chunk and every          *)
(* answer_chunk before the result; and an error or result event of the     *)
(* pipeline is the last pipeline event sent.                               *)
C35_SentInPipelineOrder ==
    \A r \in Runs :
        \A out \in {SentOfPipeline(runs[r])} :
            LET s == runs[r] IN
            /\ out = s.emitted \/ IsSubsequence(out, s.emitted)
            /\ ~s.send_failed => (out = s.emitted \/ out = DropLateProgress(s.emitted, FALSE))
            /\ \A i \in DOMAIN out :
                  /\ (out[i].type = "progress" /\ out[i] = ProgressEvent("generating")) =>
                         \A j \in 1..(i - 1) : out[j].type # "answer_chunk"
                  /\ out[i].type = "answer_chunk" =>
                         /\ \E j \in 1..(i - 1) : out[j] = ProgressEvent("generating")
                         /\ \A j \in 1..(i - 1) : out[j].type # "result"
                  /\ out[i].type \in {"error", "result"} => i = Len(out)

(* C35 witness: a complete run, everything sent: the generating event, two *)
(* answer chunks and the result.                                           *)
C35_Witness ==
    \E r \in Runs :
        LET s == runs[r] IN
        /\ s.pc = "done" /\ ~s.send_failed /\ s.sent = s.emitted
        /\ Count(s.sent, {"answer_chunk"}) >= 2
        /\ LastType(s.sent) = "result"

(* The ids of the batch that save_scraped_content hands to the collection  *)
(* for the pages the run has scraped.                                      *)
BatchIds(s) ==
    LET records == Concat([i \in DOMAIN s.scraped_content |->
                              PageRecords(s.scraped_content[i], Now)])
    IN  generate_ids_for_documents([i \in DOMAIN records |-> records[i].document])

(* C36: the batch of chunks a run has handed to the collection in one      *)
(* create_documents call, once it has indexed its scraped pages, carries   *)
(* pairwise distinct ids.                                                  *)
C36_BatchIdsDistinct ==
    \A r \in Runs :
        runs[r].pc = "p_rag_query" =>
            \A i, j \in DOMAIN BatchIds(runs[r]) :
                BatchIds(runs[r])[i] = BatchIds(runs[r])[j] => i = j

(* C37: every hit the retrieval store has given a run comes from a page    *)
(* the run itself has scraped; a run that scraped nothing, or whose        *)
(* indexing did not succeed, is given no hit, and a run that scraped       *)
(* nothing counts no relevant content.                                     *)
C37_HitsFromOwnRun ==
    \A r \in Runs :
        LET s == runs[r]
            hits == s.rag_results.results
        IN
        s.pc = "gate" =>
            /\ \A i \in DOMAIN hits : hits[i].content \in RunDocs(s)
            /\ (s.scraped_content = <<>> \/ ~s.rag_save_success) => hits = <<>>
            /\ s.scraped_content = <<>> => ~relevant_info_found(s)

(* The references of one type among the references of a result event. *)
RefsOfType(references, type) == {i \in DOMAIN references : references[i].type = type}

(* The counts of a result event agree with what the event carries. *)
CountsAgree(data) ==
    /\ data.news_count = Len(data.news.items)
    /\ data.news_count = Cardinality(RefsOfType(data.references, "news"))
    /\ data.sources_count = Len(data.sources)
    /\ data.images_count = Len(data.images)
    /\ data.youtube_count = Cardinality(RefsOfType(data.references, "youtube"))

(* C38: in every result event news_count is the number of news items the   *)
(* event carries, in news.items and as references of type news, and        *)
(* sources_count, images_count and youtube_count are the numbers of        *)
(* sources, images and videos the event carries.                           *)
C38_ResultCountsAgree ==
    \A r \in Runs :
        \A i \in DOMAIN runs[r].emitted :
            runs[r].emitted[i].type = "result" => CountsAgree(runs[r].emitted[i].data)

====
